---- MODULE Spec2Model ----
(***************************************************************************)
(* Review scheduling and queue construction of japanesehelper:            *)
(*   src/src/lib/srs.ts    the SM-2 variant (defaultSrs, applySm2)         *)
(*   src/src/lib/queue.ts  due-set selector, practice queue builder and    *)
(*                         verb ladder grouper                             *)
(*                                                                         *)
(* Representation.                                                         *)
(*  - A JavaScript string is a sequence of one-character strings, so that  *)
(*    trim, toLowerCase, includes, startsWith, endsWith and the regular    *)
(*    expression /\bverb\b/ are computed character by character.  Card and *)
(*    deck ids are atoms; Spelling gives their characters where the code   *)
(*    compares or concatenates them.                                       *)
(*  - A Record<K, V> is a function whose DOMAIN holds the keys present;    *)
(*    an optional field of an object is a field that may be absent.        *)
(*  - easeFactor is kept in hundredths (2.5 is 250).  On the values used   *)
(*    here the IEEE-754 evaluation of srs.ts agrees with this exactly:     *)
(*    0.1 - 1 * (0.08 + 1 * 0.02) evaluates to 0.0, and                    *)
(*    Math.round(intervalDays * easeFactor) equals                         *)
(*    floor(intervalDays * easeFactor + 0.5) for intervalDays <= 24.       *)
(*  - Timestamps are milliseconds, as in the code.                         *)
(*  - Math.random is a nondeterministic choice: shuffled(arr) is the set   *)
(*    of arrays the Fisher-Yates loop can produce, and an operator that    *)
(*    shuffles denotes the set of lists the function can return.           *)
(***************************************************************************)
EXTENDS Integers, Sequences, FiniteSets, TLC

VARIABLES
    state,   \* the AppState snapshot handed to the queue functions
    now,     \* the caller-supplied timestamp (ms)
    call,    \* the queue-function invocation whose result the caller holds
    start,   \* the recall state a review sequence started from
    rec,     \* the recall state after the reviews applied so far
    sm2,     \* the most recent applySm2 invocation
    session, \* the screen of the app and the state of its ReviewScreen
    idb,     \* the IndexedDB store, and the loads and saves in progress
    heap     \* the arrays and records of the call in progress, by reference

vars == <<state, now, call, start, rec, sm2, session, idb, heap>>

(***************************************************************************)
(* Bounds of the model.                                                    *)
(***************************************************************************)
MaxTicks == 1          \* half-day clock steps after the initial time
MaxLimit == 6          \* largest limit a caller passes
MaxRepetitions == 3    \* longest streak of correct answers in a sequence
MaxLapses == 2         \* most lapses in a review sequence
MaxIntervalDays == 20  \* largest interval a review may produce
MaxAnswers == 2        \* most answers submitted in a study history
MaxClockDays == 8      \* latest day the clock of a study history reaches
MaxSessions == 2       \* most review sessions started in a study history
MaxSaves == 3          \* most saveState calls of one run of the app

(***************************************************************************)
(* Generic sequence helpers.                                               *)
(***************************************************************************)
Range(s) == {s[i] : i \in 1..Len(s)}

Min(a, b) == IF a < b THEN a ELSE b

Max(a, b) == IF a > b THEN a ELSE b

SetMin(S) == CHOOSE x \in S : \A y \in S : x <= y

IsDuplicateFree(s) == \A i, j \in 1..Len(s) : i # j => s[i] # s[j]

Count(s, x) == Cardinality({i \in 1..Len(s) : s[i] = x})

\* Array.prototype.filter with the predicate given as the set it accepts.
FilterSeq(s, keep) == SelectSeq(s, LAMBDA x : x \in keep)

\* Array.prototype.slice(0, n) for n >= 0.
Slice(s, n) == SubSeq(s, 1, Min(n, Len(s)))

RECURSIVE Flatten(_)
Flatten(ss) == IF ss = <<>> THEN <<>> ELSE Head(ss) \o Flatten(Tail(ss))

\* Insertion of x into the sorted list s after every element that does not
\* compare greater than it: with InsertionSort this is a stable sort.
RECURSIVE InsertSorted(_, _, _)
InsertSorted(s, x, cmp) ==
    IF s = <<>> THEN <<x>>
    ELSE IF cmp[Head(s), x] <= 0 THEN <<Head(s)>> \o InsertSorted(Tail(s), x, cmp)
    ELSE <<x>> \o s

\* Array.prototype.sort(compareFn): stable (ECMAScript 2019).  cmp is the
\* comparator as a function on pairs.
RECURSIVE StableSort(_, _)
StableSort(s, cmp) ==
    IF s = <<>> THEN <<>>
    ELSE InsertSorted(StableSort(SubSeq(s, 1, Len(s) - 1), cmp), s[Len(s)], cmp)

(***************************************************************************)
(* Strings as character sequences.                                         *)
(***************************************************************************)
UpperLetters ==
    <<"A", "B", "C", "D", "E", "F", "G", "H", "I", "J", "K", "L", "M",
      "N", "O", "P", "Q", "R", "S", "T", "U", "V", "W", "X", "Y", "Z">>

LowerLetters ==
    <<"a", "b", "c", "d", "e", "f", "g", "h", "i", "j", "k", "l", "m",
      "n", "o", "p", "q", "r", "s", "t", "u", "v", "w", "x", "y", "z">>

Digits == <<"0", "1", "2", "3", "4", "5", "6", "7", "8", "9">>

\* \w of a JavaScript regular expression without the u flag.
WordChars == Range(UpperLetters) \cup Range(LowerLetters) \cup Range(Digits) \cup {"_"}

Whitespace == {" "}

LowerChar(ch) ==
    IF ch \in Range(UpperLetters)
    THEN LowerLetters[CHOOSE i \in 1..Len(UpperLetters) : UpperLetters[i] = ch]
    ELSE ch

toLowerCase(s) == [i \in 1..Len(s) |-> LowerChar(s[i])]

RECURSIVE trimStart(_)
trimStart(s) ==
    IF s # <<>> /\ Head(s) \in Whitespace THEN trimStart(Tail(s)) ELSE s

RECURSIVE trimEnd(_)
trimEnd(s) ==
    IF s # <<>> /\ s[Len(s)] \in Whitespace THEN trimEnd(SubSeq(s, 1, Len(s) - 1)) ELSE s

trim(s) == trimEnd(trimStart(s))

startsWith(s, p) == Len(p) <= Len(s) /\ SubSeq(s, 1, Len(p)) = p

endsWith(s, p) == Len(p) <= Len(s) /\ SubSeq(s, Len(s) - Len(p) + 1, Len(s)) = p

includes(s, p) ==
    \E i \in 1..(Len(s) - Len(p) + 1) : SubSeq(s, i, i + Len(p) - 1) = p

\* /\bw\b/.test(s) for a word w made of word characters.
matchesWord(s, w) ==
    \E i \in 1..(Len(s) - Len(w) + 1) :
        /\ SubSeq(s, i, i + Len(w) - 1) = w
        /\ (i = 1 \/ s[i - 1] \notin WordChars)
        /\ (i + Len(w) - 1 = Len(s) \/ s[i + Len(w)] \notin WordChars)

\* obj.field ?? dflt for an optional field.
Field(obj, f, dflt) == IF f \in DOMAIN obj THEN obj[f] ELSE dflt

(***************************************************************************)
(* srs.ts                                                                  *)
(***************************************************************************)
DayMs == 24 * 60 * 60 * 1000

HalfDayMs == DayMs \div 2

DefaultEase == 250

MinEase == 130

MaxEase == 300

defaultSrs(cardId, t) ==
    [cardId |-> cardId, due |-> t, intervalDays |-> 0, easeFactor |-> DefaultEase,
     repetitions |-> 0, lapses |-> 0]

\* clamp with its two bounds taken the wrong way round.
clampSwapped(n, lo, hi) == Min(lo, Max(hi, n))

clamp(n, lo, hi) == Max(lo, Min(hi, n))

\* Math.round of a value given in hundredths.
MathRound(x) == (x + 50) \div 100

\* The ease increment without its quadratic term.
EaseDeltaLinear(quality) == 10 - (5 - quality) * 8

\* 0.1 - (5 - quality) * (0.08 + (5 - quality) * 0.02), in hundredths.
EaseDelta(quality) == 10 - (5 - quality) * (8 + (5 - quality) * 2)

QualityOf(result) == IF result.correct THEN 4 ELSE 2

Sm2Repetitions(prev, quality) ==
    IF quality < 3 THEN 0 ELSE prev.repetitions + 1

\* The interval chosen by the repetition count before it is incremented.
Sm2IntervalDaysPrevCount(prev, quality) ==
    IF quality < 3 THEN 1
    ELSE IF prev.repetitions = 1 THEN 1
    ELSE IF prev.repetitions = 2 THEN 6
    ELSE MathRound(prev.intervalDays * prev.easeFactor)

\* The interval left as it was on the lapse branch.
Sm2IntervalDaysKeptOnLapse(prev, quality) ==
    IF quality < 3 THEN prev.intervalDays
    ELSE IF Sm2Repetitions(prev, quality) = 1 THEN 1
    ELSE IF Sm2Repetitions(prev, quality) = 2 THEN 6
    ELSE MathRound(prev.intervalDays * prev.easeFactor)

Sm2IntervalDays(prev, quality) ==
    IF quality < 3 THEN 1
    ELSE IF Sm2Repetitions(prev, quality) = 1 THEN 1
    ELSE IF Sm2Repetitions(prev, quality) = 2 THEN 6
    ELSE MathRound(prev.intervalDays * prev.easeFactor)

\* The SM-2 ease update also applied, unclamped, on the lapse branch.
Sm2EaseFactorPenalised(prev, quality) ==
    IF quality < 3 THEN prev.easeFactor + EaseDelta(quality)
    ELSE clamp(prev.easeFactor + EaseDelta(quality), MinEase, MaxEase)

Sm2EaseFactor(prev, quality) ==
    IF quality < 3 THEN prev.easeFactor
    ELSE clamp(prev.easeFactor + EaseDelta(quality), MinEase, MaxEase)

\* The lapse branch without its lapses += 1.
Sm2LapsesKept(prev, quality) == prev.lapses

Sm2Lapses(prev, quality) ==
    IF quality < 3 THEN prev.lapses + 1 ELSE prev.lapses

\* due computed from the interval before the update.
Sm2DuePrevInterval(prev, quality, t) == t + prev.intervalDays * DayMs

Sm2Due(prev, quality, t) == t + Sm2IntervalDays(prev, quality) * DayMs

applySm2(prev, result, t) ==
    LET quality == QualityOf(result)
        upd == [easeFactor |-> Sm2EaseFactor(prev, quality),
                repetitions |-> Sm2Repetitions(prev, quality),
                intervalDays |-> Sm2IntervalDays(prev, quality),
                lapses |-> Sm2Lapses(prev, quality),
                due |-> Sm2Due(prev, quality, t),
                lastReviewed |-> t]
    IN  [f \in DOMAIN prev \cup DOMAIN upd |->
            IF f \in DOMAIN upd THEN upd[f] ELSE prev[f]]

(***************************************************************************)
(* The corpus: decks and cards (models.ts Card, Deck).  Kana and kanji are *)
(* written as one-character stand-ins: "#ta" is the kana ta, "%eat" the    *)
(* kanji of taberu.                                                        *)
(***************************************************************************)
VocabDeck == "dv"

MixedDeck == "ds"

ConjDeck == "dc"

DeckIds == {VocabDeck, MixedDeck, ConjDeck}

\* Deck ids a caller may pass, one of them naming no deck.
DeckArgs == DeckIds \cup {"gone"}

CardIds == {"v1", "v2", "v3", "s1", "v4", "g1", "g2", "g3", "g4", "g5", "g6", "h1"}

Spelling ==
    [id \in CardIds \cup DeckArgs \cup {"z1"} |->
        CASE id = "v1" -> <<"v", "1">> [] id = "v2" -> <<"v", "2">> [] id = "v3" -> <<"v", "3">>
          [] id = "s1" -> <<"s", "1">> [] id = "v4" -> <<"v", "4">>
          [] id = "g1" -> <<"g", "1">> [] id = "g2" -> <<"g", "2">> [] id = "g3" -> <<"g", "3">>
          [] id = "g4" -> <<"g", "4">> [] id = "g5" -> <<"g", "5">> [] id = "h1" -> <<"h", "1">>
          [] id = "g6" -> <<"g", "6">>
          [] id = "z1" -> <<"z", "1">>
          [] id = "dv" -> <<"d", "v">> [] id = "ds" -> <<"d", "s">> [] id = "dc" -> <<"d", "c">>
          [] OTHER -> <<"g", "o", "n", "e">>]

DeckNames ==
    [d \in DeckIds |->
        CASE d = VocabDeck -> <<"C", "o", "r", "e", " ", "V", "o", "c", "a", "b", "u", "l", "a", "r", "y">>
          [] d = MixedDeck -> <<"S", "e", "n", "t", "e", "n", "c", "e", "s">>
          [] OTHER -> <<"V", "e", "r", "b", " ", "C", "o", "n", "j", "u", "g", "a", "t", "i", "o", "n">>]

TagFood == <<"f", "o", "o", "d">>

TagAnimal == <<"a", "n", "i", "m", "a", "l">>

\* state.cards of the corpus.  v1..v3 make a vocab-only deck; s1 and v4 a
\* deck of mixed types; g1..g4 are generated conjugation cards of two
\* verbs (taberu with kanji, nomu without); g5 is a conjugation card of
\* nomu whose verbForm carries a trailing space; g6 is a dictionary card of
\* nomu whose verbBaseKana is written with a space inside; h1 is a card added by hand to
\* the conjugation deck (App.tsx onAdd: type inferred from the deck name,
\* no verbBaseKana, no verbForm).
SeedCards ==
    [id \in CardIds |->
        CASE id = "v1" ->
               [id |-> id, deckId |-> VocabDeck, type |-> "vocab", pos |-> <<"n", "o", "u", "n">>,
                prompt |-> <<"c", "a", "t">>, answer |-> <<"#ne", "#ko">>, tags |-> <<TagAnimal>>]
          [] id = "v2" ->
               [id |-> id, deckId |-> VocabDeck, type |-> "vocab", pos |-> <<"I", "c", "h", "i", "d", "a", "n", " ", "v", "e", "r", "b">>,
                prompt |-> <<"t", "o", " ", "e", "a", "t">>, answer |-> <<"#ta", "#be", "#ru">>, tags |-> <<TagFood>>]
          [] id = "v3" ->
               [id |-> id, deckId |-> VocabDeck, type |-> "vocab", pos |-> <<"a", "d", "v", "e", "r", "b">>,
                prompt |-> <<"a", "l", "w", "a", "y", "s">>, answer |-> <<"#i", "#tsu", "#mo">>]
          [] id = "s1" ->
               [id |-> id, deckId |-> MixedDeck, type |-> "sentence",
                prompt |-> <<"I", " ", "e", "a", "t">>, answer |-> <<"#ta", "#be", "#ma", "#su">>, tags |-> <<TagFood>>]
          [] id = "v4" ->
               [id |-> id, deckId |-> MixedDeck, type |-> "vocab", pos |-> <<"n", "o", "u", "n">>,
                prompt |-> <<"d", "o", "g">>, answer |-> <<"#i", "#nu">>, tags |-> <<>>]
          [] id = "g1" ->
               [id |-> id, deckId |-> ConjDeck, type |-> "verb", pos |-> <<"I", "c", "h", "i", "d", "a", "n", " ", "v", "e", "r", "b">>,
                prompt |-> <<"t", "o", " ", "e", "a", "t">>, answer |-> <<"#ta", "#be", "#ru">>,
                verbBaseKana |-> <<"#ta", "#be", "#ru">>, verbBaseKanji |-> <<"%eat", "#be", "#ru">>,
                verbForm |-> <<"d", "i", "c", "t", "i", "o", "n", "a", "r", "y">>]
          [] id = "g2" ->
               [id |-> id, deckId |-> ConjDeck, type |-> "verb", pos |-> <<"I", "c", "h", "i", "d", "a", "n", " ", "v", "e", "r", "b">>,
                prompt |-> <<"t", "o", " ", "e", "a", "t">>, answer |-> <<"#ta", "#be", "#ma", "#su">>,
                verbBaseKana |-> <<"#ta", "#be", "#ru">>, verbBaseKanji |-> <<"%eat", "#be", "#ru">>,
                verbForm |-> <<"p", "o", "l", "i", "t", "e", "_", "p", "r", "e", "s", "e", "n", "t">>]
          [] id = "g3" ->
               [id |-> id, deckId |-> ConjDeck, type |-> "verb",
                prompt |-> <<"T", "o", " ", "d", "r", "i", "n", "k">>, answer |-> <<"#no", "#mu">>,
                verbBaseKana |-> <<"#no", "#mu">>, verbForm |-> <<"d", "i", "c", "t", "i", "o", "n", "a", "r", "y">>]
          [] id = "g4" ->
               [id |-> id, deckId |-> ConjDeck, type |-> "verb",
                prompt |-> <<"T", "o", " ", "d", "r", "i", "n", "k">>, answer |-> <<"#no", "#n", "#de">>,
                verbBaseKana |-> <<"#no", "#mu">>, verbForm |-> <<"t", "e">>]
          [] id = "g5" ->
               [id |-> id, deckId |-> ConjDeck, type |-> "verb",
                prompt |-> <<"T", "o", " ", "d", "r", "i", "n", "k">>, answer |-> <<"#no", "#mi", "#ma", "#su">>,
                verbBaseKana |-> <<"#no", "#mu">>,
                verbForm |-> <<"p", "o", "l", "i", "t", "e", "_", "p", "r", "e", "s", "e", "n", "t", " ">>]
          [] id = "g6" ->
               [id |-> id, deckId |-> ConjDeck, type |-> "verb",
                prompt |-> <<"T", "o", " ", "d", "r", "i", "n", "k">>, answer |-> <<"#no", "#mu">>,
                verbBaseKana |-> <<"#no", " ", "#mu">>,
                verbForm |-> <<"d", "i", "c", "t", "i", "o", "n", "a", "r", "y">>]
          [] OTHER ->
               [id |-> id, deckId |-> ConjDeck, type |-> "verb",
                prompt |-> <<"t", "o", " ", "g", "o">>, answer |-> <<"#i", "#ku">>]]

(***************************************************************************)
(* storage.ts.  A stored value (blob) is a record: version is 0 where the  *)
(* code holds undefined; progress is 0 for seed content and counts the     *)
(* state changes otherwise; migrated tells whether migrateState leaves the *)
(* value as it is.  An IndexedDB request ends "fulfilled" or "rejected"    *)
(* (error, abort, blocked or timeout).                                     *)
(***************************************************************************)
Undefined == [version |-> 0, progress |-> 0, migrated |-> TRUE]

makeSeedState == [version |-> 1, progress |-> 0, migrated |-> TRUE]

migrateState(existing) ==
    IF existing.migrated THEN [next |-> existing, changed |-> FALSE]
    ELSE [next |-> [existing EXCEPT !.migrated = TRUE], changed |-> TRUE]

IdbOutcomes == {"fulfilled", "rejected"}

\* loadState when idbGet has ended, with no catch around it.
loadStateAfterGetUncaught(existing, outcome) ==
    IF outcome = "rejected"
    THEN [phase |-> "rejected", read |-> "failed", writing |-> Undefined, value |-> Undefined]
    ELSE IF existing.version = 1
    THEN IF migrateState(existing).changed
         THEN [phase |-> "write", read |-> "valid", writing |-> migrateState(existing).next,
               value |-> Undefined]
         ELSE [phase |-> "resolved", read |-> "valid", writing |-> Undefined,
               value |-> migrateState(existing).next]
    ELSE [phase |-> "write", read |-> "invalid", writing |-> makeSeedState, value |-> Undefined]

\* loadState when idbGet has ended: it has resolved, or it awaits idbSet.
loadStateAfterGet(existing, outcome) ==
    IF outcome = "rejected"
    THEN [phase |-> "resolved", read |-> "failed", writing |-> Undefined,
          value |-> makeSeedState]
    ELSE IF existing.version # 0 /\ existing.version = 1
    THEN IF migrateState(existing).changed
         THEN [phase |-> "write", read |-> "valid", writing |-> migrateState(existing).next,
               value |-> Undefined]
         ELSE [phase |-> "resolved", read |-> "valid", writing |-> Undefined,
               value |-> migrateState(existing).next]
    ELSE [phase |-> "write", read |-> "invalid", writing |-> makeSeedState, value |-> Undefined]

\* loadState when its idbSet has ended.
loadStateAfterSet(load, outcome) ==
    IF outcome = "rejected"
    THEN [load EXCEPT !.phase = "resolved", !.value = makeSeedState]
    ELSE [load EXCEPT !.phase = "resolved", !.value = load.writing]

\* saveState with no catch around idbSet.
saveStateUncaught(outcome) ==
    IF outcome = "rejected" THEN [promise |-> "rejected", logged |-> FALSE]
    ELSE [promise |-> "resolved", logged |-> FALSE]

\* saveState when its idbSet has ended.
saveState(outcome) ==
    IF outcome = "rejected" THEN [promise |-> "resolved", logged |-> TRUE]
    ELSE [promise |-> "resolved", logged |-> FALSE]

\* resetState when its saveState has settled.
resetState(saved) ==
    IF saved = "rejected" THEN [phase |-> "rejected", value |-> Undefined]
    ELSE [phase |-> "resolved", value |-> makeSeedState]

(***************************************************************************)
(* seed.ts: classifyVerb.  toRomaji is wanakana's; it is given here by its *)
(* value on the kana of the corpus.                                        *)
(***************************************************************************)
KanaRomaji(ch) ==
    CASE ch = "#i" -> <<"i">> [] ch = "#u" -> <<"u">> [] ch = "#ku" -> <<"k", "u">>
      [] ch = "#gu" -> <<"g", "u">> [] ch = "#ko" -> <<"k", "o">> [] ch = "#su" -> <<"s", "u">>
      [] ch = "#ta" -> <<"t", "a">> [] ch = "#tsu" -> <<"t", "s", "u">> [] ch = "#de" -> <<"d", "e">>
      [] ch = "#nu" -> <<"n", "u">> [] ch = "#ne" -> <<"n", "e">> [] ch = "#no" -> <<"n", "o">>
      [] ch = "#bu" -> <<"b", "u">> [] ch = "#be" -> <<"b", "e">> [] ch = "#ma" -> <<"m", "a">>
      [] ch = "#mi" -> <<"m", "i">> [] ch = "#mu" -> <<"m", "u">> [] ch = "#mo" -> <<"m", "o">>
      [] ch = "#ru" -> <<"r", "u">> [] ch = "#n" -> <<"n">>
      [] OTHER -> <<ch>>

toRomaji(s) == Flatten([i \in 1..Len(s) |-> KanaRomaji(s[i])])

\* The verbs classifyVerb names: aru, iku, iru written with the kanji of
\* "to need", hairu, kaeru.
GodanByName == {<<"#a", "#ru">>, <<"#i", "#ku">>, <<"#ha", "#i", "#ru">>, <<"#ka", "#e", "#ru">>}

\* baseKanji is <<>> where the code holds undefined.
classifyVerb(baseKana, baseKanji) ==
    LET kana == trim(baseKana)
        r == toRomaji(kana)
        pre == SubSeq(r, 1, Len(r) - 2)
    IN  IF kana \in GodanByName THEN "godan"
        ELSE IF baseKanji # <<>> /\ trim(baseKanji) = <<"%need", "#ru">> THEN "godan"
        ELSE IF /\ endsWith(kana, <<"#ru">>)
                /\ endsWith(r, <<"r", "u">>)
                /\ pre # <<>>
                /\ pre[Len(pre)] \in {"i", "e"}
             THEN "ichidan"
        ELSE "godan"

(***************************************************************************)
(* queue.ts                                                                *)
(***************************************************************************)
Swap(a, i, j) == [a EXCEPT ![i] = a[j], ![j] = a[i]]

\* The loop of shuffled from index i down: every j in 0..i may be drawn.
RECURSIVE FisherYates(_, _)
FisherYates(a, i) ==
    IF i <= 1 THEN {a}
    ELSE UNION {FisherYates(Swap(a, i, j), i - 1) : j \in 1..i}

shuffled(arr) == FisherYates(arr, Len(arr))

HasDeck(st, deckId) == deckId \in DOMAIN st.decks

HasCard(st, id) == id \in DOMAIN st.cards

isVerbConjugationDeck(st, deckId) ==
    LET name == IF HasDeck(st, deckId) THEN st.decks[deckId].name ELSE <<>>
    IN  includes(toLowerCase(name), <<"v", "e", "r", "b", " ", "c", "o", "n", "j", "u", "g", "a", "t", "i", "o", "n">>)

VerbEndingKana == {"#ru", "#u", "#ku", "#gu", "#su", "#tsu", "#nu", "#bu", "#mu"}

looksLikeVerbBaseKana(s) ==
    LET kana == trim(s)
    IN  kana # <<>> /\ \E k \in VerbEndingKana : endsWith(kana, <<k>>)

KnownVerbForms ==
    <<<<"d", "i", "c", "t", "i", "o", "n", "a", "r", "y">>,
      <<"p", "o", "l", "i", "t", "e", "_", "p", "r", "e", "s", "e", "n", "t">>,
      <<"p", "o", "l", "i", "t", "e", "_", "n", "e", "g", "a", "t", "i", "v", "e">>,
      <<"t", "e">>,
      <<"p", "r", "o", "g", "r", "e", "s", "s", "i", "v", "e">>,
      <<"p", "a", "s", "t">>,
      <<"n", "e", "g", "a", "t", "i", "v", "e">>,
      <<"p", "a", "s", "t", "_", "n", "e", "g", "a", "t", "i", "v", "e">>,
      <<"w", "a", "n", "t">>,
      <<"d", "o", "n", "t", "_", "w", "a", "n", "t">>,
      <<"w", "a", "n", "t", "_", "p", "a", "s", "t">>,
      <<"d", "o", "n", "t", "_", "w", "a", "n", "t", "_", "p", "a", "s", "t">>>>

isKnownVerbForm(form) == toLowerCase(trim(form)) \in Range(KnownVerbForms)

\* isGeneratedVerbCard(c) for a card record c that exists; the callers test
\* for a missing record themselves.
isGeneratedVerbCard(c) ==
    /\ c.type = "verb"
    /\ trim(Field(c, "verbBaseKana", <<>>)) # <<>>
    /\ looksLikeVerbBaseKana(trim(Field(c, "verbBaseKana", <<>>)))
    /\ isKnownVerbForm(Field(c, "verbForm", <<>>))
    /\ \/ matchesWord(toLowerCase(Field(c, "pos", <<>>)), <<"v", "e", "r", "b">>)
       \/ startsWith(toLowerCase(trim(Field(c, "prompt", <<>>))), <<"t", "o", " ">>)

\* The test every ladder loop applies to a deck entry:
\*   if (c && !isGeneratedVerbCard(c)) continue;
PassesVerbGuard(st, id) == ~(HasCard(st, id) /\ ~isGeneratedVerbCard(st.cards[id]))

isVocabOnlyDeck(st, deckId) ==
    /\ HasDeck(st, deckId)
    /\ Len(st.decks[deckId].cardIds) # 0
    /\ \A id \in Range(st.decks[deckId].cardIds) :
          HasCard(st, id) /\ st.cards[id].type = "vocab"

VocabCategories == {"noun", "verb", "adjective", "adverb", "connector", "other"}

ConnectorWords ==
    {<<"c", "o", "n", "j", "u", "n", "c", "t", "i", "o", "n">>,
     <<"p", "a", "r", "t", "i", "c", "l", "e">>,
     <<"d", "e", "t", "e", "r", "m", "i", "n", "e", "r">>,
     <<"i", "n", "t", "e", "r", "j", "e", "c", "t", "i", "o", "n">>,
     <<"a", "u", "x", "i", "l", "i", "a", "r", "y">>,
     <<"s", "u", "f", "f", "i", "x">>,
     <<"e", "x", "p", "r", "e", "s", "s", "i", "o", "n">>}

vocabCategoryForPos(posRaw) ==
    LET pos == toLowerCase(posRaw)
    IN  IF matchesWord(pos, <<"a", "d", "v", "e", "r", "b">>) THEN "adverb"
        ELSE IF matchesWord(pos, <<"v", "e", "r", "b">>) THEN "verb"
        ELSE IF includes(pos, <<"a", "d", "j", "e", "c", "t", "i", "v", "e">>) THEN "adjective"
        ELSE IF includes(pos, <<"n", "o", "u", "n">>) \/ includes(pos, <<"p", "r", "o", "n", "o", "u", "n">>) THEN "noun"
        ELSE IF \E w \in ConnectorWords : includes(pos, w) THEN "connector"
        ELSE "other"

defaultVocabPracticeCategories == [cat \in VocabCategories |-> TRUE]

getVocabPracticeFilteredIds(st, deckId, ids) ==
    IF deckId \notin DOMAIN st.vocabPracticeFilters THEN ids
    ELSE LET categories ==
                 Field(st.vocabPracticeFilters[deckId], "categories",
                       defaultVocabPracticeCategories)
         IN  IF ~(\E cat \in DOMAIN categories : categories[cat]) THEN <<>>
             ELSE SelectSeq(ids, LAMBDA id :
                      \/ ~HasCard(st, id)
                      \/ st.cards[id].type # "vocab"
                      \/ categories[vocabCategoryForPos(Field(st.cards[id], "pos", <<>>))])

\* state.srs[id] ?? defaultSrs(id, now)
SrsOf(st, id, t) == IF id \in DOMAIN st.srs THEN st.srs[id] ELSE defaultSrs(id, t)

\* state.stats?.[id]?.reviews ?? 0
ReviewsOf(st, id) == IF id \in DOMAIN st.stats THEN st.stats[id].reviews ELSE 0

\* a || b on strings: the empty string and undefined are both falsy.
OrElse(a, b) == IF a # <<>> THEN a ELSE b

verbBaseKey(st, cardId) ==
    LET c == IF HasCard(st, cardId) THEN st.cards[cardId] ELSE [id |-> cardId]
        baseKana == trim(OrElse(Field(c, "verbBaseKana", <<>>), Field(c, "answer", <<>>)))
        baseKanji == trim(Field(c, "verbBaseKanji", <<>>))
        raw == trim(baseKanji \o <<"|", "|">> \o baseKana)
    IN  IF raw # <<>> /\ raw # <<"|", "|">> THEN raw ELSE Spelling[cardId]

verbFormRank(form) ==
    LET f == toLowerCase(form)
    IN  IF \E i \in 1..Len(KnownVerbForms) : KnownVerbForms[i] = f
        THEN (CHOOSE i \in 1..Len(KnownVerbForms) : KnownVerbForms[i] = f) - 1
        ELSE 100

\* The collation order of the characters of the corpus (root locale):
\* whitespace, punctuation, digits, letters, kana in gojuon order, kanji.
CollationOrder ==
    <<" ", "_", "|", "0", "1", "2", "3", "4", "5", "6", "7", "8", "9",
      "a", "b", "c", "d", "e", "f", "g", "h", "i", "j", "k", "l", "m",
      "n", "o", "p", "q", "r", "s", "t", "u", "v", "w", "x", "y", "z",
      "#i", "#u", "#ku", "#gu", "#ko", "#su", "#ta", "#tsu", "#de", "#nu",
      "#ne", "#no", "#bu", "#be", "#ma", "#mi", "#mu", "#mo", "#ru", "#n",
      "%eat">>

CollationRank(ch) ==
    LET l == LowerChar(ch)
    IN  IF \E i \in 1..Len(CollationOrder) : CollationOrder[i] = l
        THEN CHOOSE i \in 1..Len(CollationOrder) : CollationOrder[i] = l
        ELSE Len(CollationOrder) + 1

\* Lexicographic comparison of two strings by a character key.
RECURSIVE LexCompare(_, _, _)
LexCompare(a, b, key) ==
    IF a = <<>> /\ b = <<>> THEN 0
    ELSE IF a = <<>> THEN -1
    ELSE IF b = <<>> THEN 1
    ELSE IF key[Head(a)] < key[Head(b)] THEN -1
    ELSE IF key[Head(a)] > key[Head(b)] THEN 1
    ELSE LexCompare(Tail(a), Tail(b), key)

\* String.prototype.localeCompare: letters first compare without case, and
\* a lower-case letter sorts before its upper-case form on a tie.
localeCompare(a, b) ==
    LET chars == Range(a) \cup Range(b)
        primary == [ch \in chars |-> CollationRank(ch)]
        tertiary == [ch \in chars |-> IF ch \in Range(UpperLetters) THEN 1 ELSE 0]
        p == LexCompare(a, b, primary)
    IN  IF p # 0 THEN p ELSE LexCompare(a, b, tertiary)

orderVerbCardsForLadder(st, ids) ==
    LET S == Range(ids)
        form(id) == IF HasCard(st, id) THEN Field(st.cards[id], "verbForm", <<>>) ELSE <<>>
        answer(id) == IF HasCard(st, id) THEN Field(st.cards[id], "answer", <<>>) ELSE <<>>
        cmp == [a \in S, b \in S |->
                   IF verbFormRank(form(a)) # verbFormRank(form(b))
                   THEN verbFormRank(form(a)) - verbFormRank(form(b))
                   ELSE IF localeCompare(answer(a), answer(b)) # 0
                   THEN localeCompare(answer(a), answer(b))
                   ELSE localeCompare(Spelling[a], Spelling[b])]
    IN  StableSort(ids, cmp)

\* The distinct elements of s in the order of their first occurrence: the
\* key order of a Map filled while walking s.
RECURSIVE Distinct(_)
Distinct(s) ==
    IF s = <<>> THEN <<>>
    ELSE LET r == Distinct(SubSeq(s, 1, Len(s) - 1))
         IN  IF s[Len(s)] \in Range(r) THEN r ELSE Append(r, s[Len(s)])

\* byBase with one bucket per card id instead of one per base key.
GroupByBaseSingletons(st, ids) ==
    [k \in 1..Len(ids) |-> [base |-> verbBaseKey(st, ids[k]), ids |-> <<ids[k]>>]]

\* byBase: one entry per base key, in Map insertion order, each with the
\* ids pushed into its bucket in deck order.
GroupByBase(st, ids) ==
    LET bases == Distinct([i \in 1..Len(ids) |-> verbBaseKey(st, ids[i])])
    IN  [k \in 1..Len(bases) |->
            [base |-> bases[k],
             ids |-> SelectSeq(ids, LAMBDA id : verbBaseKey(st, id) = bases[k])]]

MinDueOf(st, ids, t) == SetMin({SrsOf(st, id, t).due : id \in Range(ids)})

\* dueIds of getVerbLadderQueueForReview: the deck entries that pass the
\* guard and are due.
dueLadderIds(st, deckId, t) ==
    SelectSeq(st.decks[deckId].cardIds, LAMBDA id :
        PassesVerbGuard(st, id) /\ SrsOf(st, id, t).due <= t)

\* groups of getVerbLadderQueueForReview, before they are sorted.
reviewGroups(st, byBase, t) ==
    [k \in 1..Len(byBase) |->
        [base |-> byBase[k].base,
         ids |-> orderVerbCardsForLadder(st, byBase[k].ids),
         minDue |-> MinDueOf(st, byBase[k].ids, t)]]

\* The review groups sorted with the comparator's operands exchanged.
sortByMinDueLatestFirst(groups) ==
    StableSort(groups, [a \in Range(groups), b \in Range(groups) |-> b.minDue - a.minDue])

\* groups.sort((a, b) => a.minDue - b.minDue)
sortByMinDue(groups) ==
    StableSort(groups, [a \in Range(groups), b \in Range(groups) |-> a.minDue - b.minDue])

\* groups.flatMap((g) => g.ids)
flatMapIds(groups) == Flatten([k \in 1..Len(groups) |-> groups[k].ids])

getVerbLadderQueueForReview(st, deckId, t) ==
    IF ~HasDeck(st, deckId) THEN <<>>
    ELSE IF dueLadderIds(st, deckId, t) = <<>> THEN <<>>
    ELSE flatMapIds(sortByMinDue(
             reviewGroups(st, GroupByBase(st, dueLadderIds(st, deckId, t)), t)))

RECURSIVE SumSeq(_)
SumSeq(s) == IF s = <<>> THEN 0 ELSE Head(s) + SumSeq(Tail(s))

\* The loop with a ladder that does not fit passed over instead of ending
\* the loop.
RECURSIVE TakeLaddersPassingOver(_, _, _, _)
TakeLaddersPassingOver(groups, k, out, limit) ==
    IF k > Len(groups) THEN out
    ELSE IF Len(out) > 0 /\ Len(out) + Len(groups[k].ids) > limit
    THEN TakeLaddersPassingOver(groups, k + 1, out, limit)
    ELSE IF Len(out \o groups[k].ids) >= limit THEN out \o groups[k].ids
    ELSE TakeLaddersPassingOver(groups, k + 1, out \o groups[k].ids, limit)

\* The loop that appends whole ladders, from group k on, to out.
RECURSIVE TakeLadders(_, _, _, _)
TakeLadders(groups, k, out, limit) ==
    IF k > Len(groups) THEN out
    ELSE IF Len(out) > 0 /\ Len(out) + Len(groups[k].ids) > limit THEN out
    ELSE IF Len(out \o groups[k].ids) >= limit THEN out \o groups[k].ids
    ELSE TakeLadders(groups, k + 1, out \o groups[k].ids, limit)

\* ids of getVerbLadderQueueForPractice: the deck entries that pass the guard.
ladderIds(st, deckId) ==
    SelectSeq(st.decks[deckId].cardIds, LAMBDA id : PassesVerbGuard(st, id))

\* One group of getVerbLadderQueueForPractice.  avgReviews is kept as the
\* fraction sumReviews / Len(ids).
practiceGroup(st, base, ordered, t) ==
    [base |-> base,
     ids |-> ordered,
     sumReviews |-> SumSeq([i \in 1..Len(ordered) |-> ReviewsOf(st, ordered[i])]),
     minDue |-> MinDueOf(st, ordered, t)]

practiceGroups(st, byBase, t) ==
    [k \in 1..Len(byBase) |->
        practiceGroup(st, byBase[k].base, orderVerbCardsForLadder(st, byBase[k].ids), t)]

\* The comparator of the practice groups on the total instead of the
\* average review count.
byTotalReviewsThenMinDue(groups) ==
    [a \in Range(groups), b \in Range(groups) |->
        IF a.sumReviews # b.sumReviews
        THEN a.sumReviews - b.sumReviews
        ELSE a.minDue - b.minDue]

\* The comparator of the practice groups; two averages compare as their
\* cross products do.
byAvgReviewsThenMinDue(groups) ==
    [a \in Range(groups), b \in Range(groups) |->
        IF a.sumReviews * Len(b.ids) # b.sumReviews * Len(a.ids)
        THEN a.sumReviews * Len(b.ids) - b.sumReviews * Len(a.ids)
        ELSE a.minDue - b.minDue]

sortByAvgReviews(groups) == StableSort(groups, byAvgReviewsThenMinDue(groups))

\* if (out.length === 0 && groups.length > 0) return groups[0].ids
firstLadderIfEmpty(groups, out) ==
    IF out = <<>> /\ groups # <<>> THEN groups[1].ids ELSE out

\* The ladders that fit within limit, with nothing returned when the first
\* ladder alone is longer than limit.
fillLaddersWithinLimit(groups, limit) ==
    IF groups # <<>> /\ Len(groups[1].ids) > limit THEN <<>>
    ELSE TakeLadders(groups, 1, <<>>, limit)

fillLadders(groups, limit) ==
    firstLadderIfEmpty(groups, TakeLadders(groups, 1, <<>>, limit))

getVerbLadderQueueForPractice(st, deckId, t, limit) ==
    IF ~HasDeck(st, deckId) THEN <<>>
    ELSE IF limit <= 0 THEN <<>>
    ELSE fillLadders(
             sortByAvgReviews(
                 practiceGroups(st, GroupByBase(st, ladderIds(st, deckId)), t)),
             limit)

\* The lists getVerbMixedQueueForPractice can return (its _now is unused).
getVerbMixedQueueForPractice(st, deckId, t, limit) ==
    IF ~HasDeck(st, deckId) THEN {<<>>}
    ELSE IF limit <= 0 THEN {<<>>}
    ELSE {IF limit >= Len(mixed) THEN mixed ELSE Slice(mixed, limit)
          : mixed \in shuffled(ladderIds(st, deckId))}

\* (s ?? '').trim().replace(/\s+/g, '')
normalizeVerbBaseKana(s) == SelectSeq(trim(s), LAMBDA ch : ch \notin Whitespace)

verbEndingForBaseKana(baseKana) ==
    LET b == normalizeVerbBaseKana(baseKana)
    IN  IF b = <<>> THEN <<>>
        ELSE IF endsWith(b, <<"#su", "#ru">>) THEN <<"#su", "#ru">>
        ELSE IF endsWith(b, <<"#ku", "#ru">>) THEN <<"#ku", "#ru">>
        ELSE <<b[Len(b)]>>

\* The deck entries getVerbDictionaryBases does not pass over.
isDictionaryBaseCard(st, id) ==
    /\ HasCard(st, id)
    /\ isGeneratedVerbCard(st.cards[id])
    /\ trim(toLowerCase(Field(st.cards[id], "verbForm", <<>>))) =
           <<"d", "i", "c", "t", "i", "o", "n", "a", "r", "y">>
    /\ normalizeVerbBaseKana(Field(st.cards[id], "verbBaseKana", <<>>)) # <<>>

\* The entry getVerbDictionaryBases builds from a deck entry (baseKanji is
\* <<>> where the code holds undefined).
verbBaseEntry(st, id) ==
    LET c == st.cards[id]
        baseKana == normalizeVerbBaseKana(Field(c, "verbBaseKana", <<>>))
        baseKanji == trim(Field(c, "verbBaseKanji", <<>>))
        baseKeyRaw == trim(trim(baseKanji) \o <<"|", "|">> \o baseKana)
    IN  [baseKey |-> IF baseKeyRaw # <<>> /\ baseKeyRaw # <<"|", "|">> THEN baseKeyRaw
                     ELSE Spelling[id],
         baseKana |-> baseKana,
         baseKanji |-> baseKanji,
         cls |-> classifyVerb(baseKana, baseKanji),
         ending |-> verbEndingForBaseKana(baseKana)]

\* The values of the map out in insertion order: the first entry of each key.
firstEntryPerKey(entries) ==
    LET firsts == {i \in 1..Len(entries) :
                      \A j \in 1..(i - 1) : entries[j].baseKey # entries[i].baseKey}
    IN  [k \in 1..Cardinality(firsts) |->
            entries[CHOOSE i \in firsts : Cardinality({j \in firsts : j < i}) = k - 1]]

getVerbDictionaryBases(st, deckId) ==
    IF ~HasDeck(st, deckId) THEN <<>>
    ELSE LET ids == SelectSeq(st.decks[deckId].cardIds,
                              LAMBDA id : isDictionaryBaseCard(st, id))
             list == firstEntryPerKey([i \in 1..Len(ids) |-> verbBaseEntry(st, ids[i])])
         IN  StableSort(list, [a \in Range(list), b \in Range(list) |->
                 localeCompare(a.baseKana, b.baseKana)])

baseKeysOf(bases) == [i \in 1..Len(bases) |-> bases[i].baseKey]

getVerbBaseKeysForVerbClass(st, deckId, cls) ==
    baseKeysOf(SelectSeq(getVerbDictionaryBases(st, deckId), LAMBDA b : b.cls = cls))

getVerbBaseKeysForVerbEnding(st, deckId, ending) ==
    IF trim(ending) = <<>> THEN <<>>
    ELSE baseKeysOf(SelectSeq(getVerbDictionaryBases(st, deckId),
                              LAMBDA b : b.ending = trim(ending)))

\* The caller's keys, trimmed, without the empty ones.
trimmedKeys(keys) ==
    SelectSeq([i \in 1..Len(keys) |-> trim(keys[i])], LAMBDA k : k # <<>>)

\* baseOrder.get(base): the index (from 0) of the first entry of
\* orderedBaseKeys that trims to base.
baseOrderOf(orderedBaseKeys, base) ==
    SetMin({i \in 1..Len(orderedBaseKeys) : trim(orderedBaseKeys[i]) = base}) - 1

\* The deck entries that pass the guard and whose base key is wanted.
idsOfBases(st, deckId, wanted) ==
    SelectSeq(st.decks[deckId].cardIds, LAMBDA id :
        PassesVerbGuard(st, id) /\ verbBaseKey(st, id) \in wanted)

\* groups of getVerbLadderQueueForBases, before they are sorted.
basesGroups(st, byBase) ==
    [k \in 1..Len(byBase) |->
        [base |-> byBase[k].base, ids |-> orderVerbCardsForLadder(st, byBase[k].ids)]]

\* groups.sort((a, b) => baseOrder.get(a.base) - baseOrder.get(b.base))
sortByBaseOrder(groups, orderedBaseKeys) ==
    StableSort(groups, [a \in Range(groups), b \in Range(groups) |->
        baseOrderOf(orderedBaseKeys, a.base) - baseOrderOf(orderedBaseKeys, b.base)])

getVerbLadderQueueForBases(st, deckId, orderedBaseKeys) ==
    IF ~HasDeck(st, deckId) THEN <<>>
    ELSE IF trimmedKeys(orderedBaseKeys) = <<>> THEN <<>>
    ELSE flatMapIds(sortByBaseOrder(
             basesGroups(st, GroupByBase(st,
                 idsOfBases(st, deckId, Range(trimmedKeys(orderedBaseKeys))))),
             orderedBaseKeys))

getVerbLadderQueueForVerbClass(st, deckId, cls) ==
    getVerbLadderQueueForBases(st, deckId, getVerbBaseKeysForVerbClass(st, deckId, cls))

getVerbLadderQueueForVerbEnding(st, deckId, ending) ==
    getVerbLadderQueueForBases(st, deckId, getVerbBaseKeysForVerbEnding(st, deckId, ending))

\* The lists getVerbMixedQueueForBases can return.
getVerbMixedQueueForBases(st, deckId, baseKeys, limit) ==
    IF ~HasDeck(st, deckId) THEN {<<>>}
    ELSE IF limit <= 0 THEN {<<>>}
    ELSE IF trimmedKeys(baseKeys) = <<>> THEN {<<>>}
    ELSE {IF limit >= Len(mixed) THEN mixed ELSE Slice(mixed, limit)
          : mixed \in shuffled(idsOfBases(st, deckId, Range(trimmedKeys(baseKeys))))}

\* getDueCardIdsForDeck with the due test written as srs.due < now.
getDueCardIdsForDeckStrict(st, deckId, t) ==
    IF ~HasDeck(st, deckId) THEN {<<>>}
    ELSE IF isVerbConjugationDeck(st, deckId)
    THEN {getVerbLadderQueueForReview(st, deckId, t)}
    ELSE LET ids == SelectSeq(st.decks[deckId].cardIds, LAMBDA id :
                        SrsOf(st, id, t).due < t)
             cmp == [a \in Range(ids), b \in Range(ids) |->
                        SrsOf(st, a, t).due - SrsOf(st, b, t).due]
         IN  shuffled(StableSort(ids, cmp))

\* The lists getDueCardIdsForDeck can return.
getDueCardIdsForDeck(st, deckId, t) ==
    IF ~HasDeck(st, deckId) THEN {<<>>}
    ELSE IF isVerbConjugationDeck(st, deckId)
    THEN {getVerbLadderQueueForReview(st, deckId, t)}
    ELSE LET ids == SelectSeq(st.decks[deckId].cardIds, LAMBDA id :
                        SrsOf(st, id, t).due <= t)
             cmp == [a \in Range(ids), b \in Range(ids) |->
                        SrsOf(st, a, t).due - SrsOf(st, b, t).due]
         IN  shuffled(StableSort(ids, cmp))

RECURSIVE SortedSeqOfSet(_)
SortedSeqOfSet(S) ==
    IF S = {} THEN <<>> ELSE <<SetMin(S)>> \o SortedSeqOfSet(S \ {SetMin(S)})

\* The concatenations of one list drawn from each set of a list of sets.
RECURSIVE ConcatChoices(_)
ConcatChoices(sets) ==
    IF sets = <<>> THEN {<<>>}
    ELSE {h \o r : h \in Head(sets), r \in ConcatChoices(Tail(sets))}

\* othersShuffled with the buckets taken in the order the Map first saw
\* their counts instead of ascending order.
OthersShuffledInMapOrder(st, t, others) ==
    LET reviewCounts == Distinct([i \in 1..Len(others) |-> ReviewsOf(st, others[i])])
        bucket(r) == SelectSeq(others, LAMBDA id : ReviewsOf(st, id) = r)
        cmp == [a \in Range(others), b \in Range(others) |->
                   SrsOf(st, a, t).due - SrsOf(st, b, t).due]
    IN  ConcatChoices([k \in 1..Len(reviewCounts) |->
                          shuffled(StableSort(bucket(reviewCounts[k]), cmp))])

\* othersShuffled: the review-count buckets of others in ascending count
\* order, each sorted by due and then shuffled.
OthersShuffled(st, t, others) ==
    LET reviewCounts == SortedSeqOfSet({ReviewsOf(st, id) : id \in Range(others)})
        bucket(r) == SelectSeq(others, LAMBDA id : ReviewsOf(st, id) = r)
        cmp == [a \in Range(others), b \in Range(others) |->
                   SrsOf(st, a, t).due - SrsOf(st, b, t).due]
    IN  ConcatChoices([k \in 1..Len(reviewCounts) |->
                          shuffled(StableSort(bucket(reviewCounts[k]), cmp))])

\* merged with others not cleared of the due cards.
MergedQueuesKeepDue(st, deckId, t, baseIds) ==
    UNION {{FilterSeq(q, Range(baseIds)) \o o : o \in OthersShuffled(st, t, baseIds)}
           : q \in getDueCardIdsForDeck(st, deckId, t)}

\* merged with the remainder put before the due cards.
MergedQueuesOthersFirst(st, deckId, t, baseIds) ==
    UNION {LET due == FilterSeq(q, Range(baseIds))
               others == SelectSeq(baseIds, LAMBDA id : id \notin Range(due))
           IN  {o \o due : o \in OthersShuffled(st, t, others)}
           : q \in getDueCardIdsForDeck(st, deckId, t)}

\* merged with the due cards not restricted to baseIds.
MergedQueuesUnfilteredDue(st, deckId, t, baseIds) ==
    UNION {LET others == SelectSeq(baseIds, LAMBDA id : id \notin Range(q))
           IN  {q \o o : o \in OthersShuffled(st, t, others)}
           : q \in getDueCardIdsForDeck(st, deckId, t)}

\* merged: the due cards of baseIds in due-selector order, then the rest.
MergedQueues(st, deckId, t, baseIds) ==
    UNION {LET due == FilterSeq(q, Range(baseIds))
               others == SelectSeq(baseIds, LAMBDA id : id \notin Range(due))
           IN  {due \o o : o \in OthersShuffled(st, t, others)}
           : q \in getDueCardIdsForDeck(st, deckId, t)}

\* getPracticeCardIdsForDeck without the limit <= 0 case of its last test.
getPracticeCardIdsForDeckAlwaysCut(st, deckId, t, limit) ==
    IF ~HasDeck(st, deckId) THEN {<<>>}
    ELSE IF isVerbConjugationDeck(st, deckId)
    THEN {getVerbLadderQueueForPractice(st, deckId, t, limit)}
    ELSE LET cardIds == st.decks[deckId].cardIds
             baseIds == IF isVocabOnlyDeck(st, deckId)
                        THEN getVocabPracticeFilteredIds(st, deckId, cardIds)
                        ELSE cardIds
         IN  {IF limit >= Len(merged) THEN merged
              ELSE IF limit >= 0 THEN Slice(merged, limit)
              ELSE SubSeq(merged, 1, Max(0, Len(merged) + limit))
              : merged \in MergedQueues(st, deckId, t, baseIds)}

\* The lists getPracticeCardIdsForDeck can return.
getPracticeCardIdsForDeck(st, deckId, t, limit) ==
    IF ~HasDeck(st, deckId) THEN {<<>>}
    ELSE IF isVerbConjugationDeck(st, deckId)
    THEN {getVerbLadderQueueForPractice(st, deckId, t, limit)}
    ELSE LET cardIds == st.decks[deckId].cardIds
             baseIds == IF isVocabOnlyDeck(st, deckId)
                        THEN getVocabPracticeFilteredIds(st, deckId, cardIds)
                        ELSE cardIds
         IN  {IF limit <= 0 \/ limit >= Len(merged) THEN merged ELSE Slice(merged, limit)
              : merged \in MergedQueues(st, deckId, t, baseIds)}

\* getPracticeCardIdsForDeckByTags without the tag test on the deck's cards.
getPracticeCardIdsForDeckByTagsAnyCard(st, deckId, t, limit, tags) ==
    IF ~HasDeck(st, deckId) THEN {<<>>}
    ELSE IF limit <= 0 THEN {<<>>}
    ELSE IF trimmedKeys(tags) = <<>> THEN getPracticeCardIdsForDeck(st, deckId, t, limit)
    ELSE {IF limit >= Len(merged) THEN merged ELSE Slice(merged, limit)
          : merged \in MergedQueues(st, deckId, t, st.decks[deckId].cardIds)}

\* The lists getPracticeCardIdsForDeckByTags can return.
getPracticeCardIdsForDeckByTags(st, deckId, t, limit, tags) ==
    IF ~HasDeck(st, deckId) THEN {<<>>}
    ELSE IF limit <= 0 THEN {<<>>}
    ELSE LET wanted == SelectSeq([i \in 1..Len(tags) |-> trim(tags[i])],
                                 LAMBDA w : w # <<>>)
             tagsOf(id) == IF HasCard(st, id) THEN Field(st.cards[id], "tags", <<>>) ELSE <<>>
             baseIds == SelectSeq(st.decks[deckId].cardIds, LAMBDA id :
                            /\ tagsOf(id) # <<>>
                            /\ \E w \in Range(wanted) : w \in Range(tagsOf(id)))
         IN  IF wanted = <<>> THEN getPracticeCardIdsForDeck(st, deckId, t, limit)
             ELSE {IF limit >= Len(merged) THEN merged ELSE Slice(merged, limit)
                   : merged \in MergedQueues(st, deckId, t, baseIds)}

(***************************************************************************)
(* queue.ts and srs.ts on a heap.  An array or record is a cell of         *)
(* heap.cells and a reference is its index.  The first heap.inputs cells   *)
(* are the objects the arguments of the call reach: cell 1 is              *)
(* deck.cardIds, or prev for applySm2, and cell 2 the array argument.      *)
(* heap.before keeps their values at the call, and heap.ret is the         *)
(* reference the last step returned.                                       *)
(***************************************************************************)
NoHeap == [fn |-> "none", cells |-> <<>>, before |-> <<>>, inputs |-> 0, ret |-> 0]

HeapAtCall(fn, args) ==
    [fn |-> fn, cells |-> args, before |-> args, inputs |-> Len(args), ret |-> 0]

\* [], [...arr], arr.map, arr.slice, arr.flatMap, { ...obj }: a new object.
NewObject(h, v) == [h EXCEPT !.cells = Append(@, v), !.ret = Len(h.cells) + 1]

\* arr.push, arr.sort, a[i] = x: the object at r changes.
WriteInPlace(h, r, v) == [h EXCEPT !.cells[r] = v, !.ret = r]

\* The same object under another name.
SameObject(h, r) == [h EXCEPT !.ret = r]

\* The array at r cleared of the rejected entries in place.
filterInPlace(h, r, v) == WriteInPlace(h, r, v)

\* arr.filter(...) on the array at r: a new array with the value v.
filter(h, r, v) == NewObject(h, v)

\* const a = []; a.push(...) for every entry of v.
Pushed(h, v) == WriteInPlace(NewObject(h, <<>>), Len(h.cells) + 1, v)

\* shuffled(arr) on the array at h.ret: a copy, swapped in place into out.
shuffledOnHeap(h, out) == WriteInPlace(NewObject(h, h.cells[h.ret]), Len(h.cells) + 1, out)

\* orderVerbCardsForLadder(state, ids) on the array at h.ret.
orderVerbCardsForLadderOnHeap(h, st) ==
    WriteInPlace(NewObject(h, h.cells[h.ret]), Len(h.cells) + 1,
                 orderVerbCardsForLadder(st, h.cells[h.ret]))

\* The buckets of byBase, each pushed into and then ordered.
RECURSIVE laddersOnHeap(_, _, _, _)
laddersOnHeap(h, st, byBase, k) ==
    IF k > Len(byBase) THEN h
    ELSE laddersOnHeap(orderVerbCardsForLadderOnHeap(Pushed(h, byBase[k].ids), st),
                       st, byBase, k + 1)

\* groups: mapped from the entries of byBase, sorted in place, flattened.
groupsOnHeap(h, groups, sorted) ==
    NewObject(WriteInPlace(NewObject(h, groups), Len(h.cells) + 1, sorted),
              flatMapIds(sorted))

getVerbLadderQueueForReviewOnHeap(h, st, deckId, t) ==
    IF ~HasDeck(st, deckId) THEN NewObject(h, <<>>)
    ELSE IF dueLadderIds(st, deckId, t) = <<>>
    THEN NewObject(Pushed(h, <<>>), <<>>)
    ELSE groupsOnHeap(
             laddersOnHeap(Pushed(h, dueLadderIds(st, deckId, t)), st,
                           GroupByBase(st, dueLadderIds(st, deckId, t)), 1),
             reviewGroups(st, GroupByBase(st, dueLadderIds(st, deckId, t)), t),
             sortByMinDue(reviewGroups(st, GroupByBase(st, dueLadderIds(st, deckId, t)), t)))

\* groups sorted in place, and out pushed into.
practiceLaddersOnHeap(h, groups, sorted, limit) ==
    Pushed(WriteInPlace(NewObject(h, groups), Len(h.cells) + 1, sorted),
           TakeLadders(sorted, 1, <<>>, limit))

getVerbLadderQueueForPracticeOnHeap(h, st, deckId, t, limit) ==
    IF ~HasDeck(st, deckId) THEN NewObject(h, <<>>)
    ELSE IF limit <= 0 THEN NewObject(h, <<>>)
    ELSE practiceLaddersOnHeap(
             laddersOnHeap(h, st, GroupByBase(st, ladderIds(st, deckId)), 1),
             practiceGroups(st, GroupByBase(st, ladderIds(st, deckId)), t),
             sortByAvgReviews(practiceGroups(st, GroupByBase(st, ladderIds(st, deckId)), t)),
             limit)

getVerbLadderQueueForBasesOnHeap(h, st, deckId, orderedBaseKeys) ==
    IF ~HasDeck(st, deckId) THEN NewObject(h, <<>>)
    ELSE IF trimmedKeys(orderedBaseKeys) = <<>> THEN NewObject(h, <<>>)
    ELSE groupsOnHeap(
             laddersOnHeap(h, st,
                 GroupByBase(st, idsOfBases(st, deckId, Range(trimmedKeys(orderedBaseKeys)))), 1),
             basesGroups(st,
                 GroupByBase(st, idsOfBases(st, deckId, Range(trimmedKeys(orderedBaseKeys))))),
             sortByBaseOrder(
                 basesGroups(st,
                     GroupByBase(st, idsOfBases(st, deckId, Range(trimmedKeys(orderedBaseKeys))))),
                 orderedBaseKeys))

\* mixed = shuffled(all) on the array at h.ret, returned whole or sliced.
mixedOnHeap(h, mixed, limit) ==
    IF limit >= Len(mixed) THEN shuffledOnHeap(h, mixed)
    ELSE NewObject(shuffledOnHeap(h, mixed), Slice(mixed, limit))

getVerbMixedQueueForPracticeOnHeap(h, st, deckId, limit, mixed) ==
    IF ~HasDeck(st, deckId) THEN NewObject(h, <<>>)
    ELSE IF limit <= 0 THEN NewObject(h, <<>>)
    ELSE mixedOnHeap(Pushed(h, ladderIds(st, deckId)), mixed, limit)

\* arr.map(...).filter(Boolean) on the array at r, with the value v.
mappedAndFiltered(h, r, v) == filter(NewObject(h, h.cells[r]), Len(h.cells) + 1, v)

getVerbMixedQueueForBasesOnHeap(h, st, deckId, baseKeys, limit, mixed) ==
    IF ~HasDeck(st, deckId) THEN NewObject(h, <<>>)
    ELSE IF limit <= 0 THEN NewObject(h, <<>>)
    ELSE IF trimmedKeys(baseKeys) = <<>> THEN NewObject(mappedAndFiltered(h, 2, <<>>), <<>>)
    ELSE mixedOnHeap(
             Pushed(mappedAndFiltered(h, 2, trimmedKeys(baseKeys)),
                    idsOfBases(st, deckId, Range(trimmedKeys(baseKeys)))),
             mixed, limit)

\* The due cards of a deck in deck order, as the loop pushes them.
dueInDeckOrder(st, deckId, t) ==
    SelectSeq(st.decks[deckId].cardIds, LAMBDA id : SrsOf(st, id, t).due <= t)

\* due sorted in place by due.
dueSorted(st, deckId, t) ==
    StableSort(dueInDeckOrder(st, deckId, t),
               [a \in Range(dueInDeckOrder(st, deckId, t)),
                b \in Range(dueInDeckOrder(st, deckId, t)) |->
                   SrsOf(st, a, t).due - SrsOf(st, b, t).due])

\* getDueCardIdsForDeck returning the list q.
getDueCardIdsForDeckOnHeap(h, st, deckId, t, q) ==
    IF ~HasDeck(st, deckId) THEN NewObject(h, <<>>)
    ELSE IF isVerbConjugationDeck(st, deckId)
    THEN getVerbLadderQueueForReviewOnHeap(h, st, deckId, t)
    ELSE shuffledOnHeap(
             NewObject(WriteInPlace(Pushed(h, dueInDeckOrder(st, deckId, t)),
                                    Len(h.cells) + 1, dueSorted(st, deckId, t)),
                       dueSorted(st, deckId, t)),
             q)

\* getVocabPracticeFilteredIds(state, deckId, ids) on the array at r.
getVocabPracticeFilteredIdsOnHeap(h, st, deckId, r) ==
    IF deckId \notin DOMAIN st.vocabPracticeFilters THEN SameObject(h, r)
    ELSE IF ~(\E cat \in VocabCategories :
                 Field(st.vocabPracticeFilters[deckId], "categories",
                       defaultVocabPracticeCategories)[cat])
    THEN NewObject(h, <<>>)
    ELSE filter(h, r, getVocabPracticeFilteredIds(st, deckId, h.cells[r]))

\* The ids of others with the review count r.
bucketOf(st, others, r) == SelectSeq(others, LAMBDA id : ReviewsOf(st, id) = r)

\* The buckets of byReviews in ascending count order: each pushed into,
\* sorted in place by due and shuffled into the next entries of o.
RECURSIVE bucketsOnHeap(_, _, _, _, _, _)
bucketsOnHeap(h, st, t, others, counts, o) ==
    IF counts = <<>> THEN h
    ELSE bucketsOnHeap(
             shuffledOnHeap(
                 WriteInPlace(
                     Pushed(h, bucketOf(st, others, Head(counts))),
                     Len(h.cells) + 1,
                     StableSort(bucketOf(st, others, Head(counts)),
                                [a \in Range(others), b \in Range(others) |->
                                    SrsOf(st, a, t).due - SrsOf(st, b, t).due])),
                 SubSeq(o, 1, Len(bucketOf(st, others, Head(counts))))),
             st, t, others, Tail(counts),
             SubSeq(o, Len(bucketOf(st, others, Head(counts))) + 1, Len(o)))

\* merged = [...due, ...othersShuffled], returned whole or sliced.
mergedOnHeap(h, merged, limit) ==
    IF limit <= 0 \/ limit >= Len(merged) THEN NewObject(h, merged)
    ELSE NewObject(NewObject(h, merged), Slice(merged, limit))

\* The entries of baseIds that are not due.
othersOf(baseIds, due) == SelectSeq(baseIds, LAMBDA id : id \notin Range(due))

\* others = baseIds.filter(...) with baseIds the array at baseRef, then the
\* buckets, othersShuffled and merged.
othersOnHeap(h, baseRef, st, t, limit, due, o) ==
    mergedOnHeap(
        Pushed(bucketsOnHeap(
                   filter(h, baseRef, othersOf(h.cells[baseRef], due)),
                   st, t, othersOf(h.cells[baseRef], due),
                   SortedSeqOfSet({ReviewsOf(st, id) :
                                      id \in Range(othersOf(h.cells[baseRef], due))}),
                   o),
               o),
        due \o o, limit)

\* due = getDueCardIdsForDeck(...).filter(...) with q the list returned,
\* then the rest; baseIds is the array at h.ret.
practiceOnHeap(h, st, deckId, t, limit, q, o) ==
    othersOnHeap(
        filter(getDueCardIdsForDeckOnHeap(h, st, deckId, t, q),
               getDueCardIdsForDeckOnHeap(h, st, deckId, t, q).ret,
               FilterSeq(q, Range(h.cells[h.ret]))),
        h.ret, st, t, limit, FilterSeq(q, Range(h.cells[h.ret])), o)

\* getPracticeCardIdsForDeck with q returned by getDueCardIdsForDeck and o
\* the value of othersShuffled.
getPracticeCardIdsForDeckOnHeap(h, st, deckId, t, limit, q, o) ==
    IF ~HasDeck(st, deckId) THEN NewObject(h, <<>>)
    ELSE IF isVerbConjugationDeck(st, deckId)
    THEN getVerbLadderQueueForPracticeOnHeap(h, st, deckId, t, limit)
    ELSE IF isVocabOnlyDeck(st, deckId)
    THEN practiceOnHeap(getVocabPracticeFilteredIdsOnHeap(h, st, deckId, 1),
                        st, deckId, t, limit, q, o)
    ELSE practiceOnHeap(SameObject(h, 1), st, deckId, t, limit, q, o)

\* baseIds of getPracticeCardIdsForDeckByTags: the cards with a wanted tag.
taggedIds(st, deckId, tags) ==
    SelectSeq(st.decks[deckId].cardIds, LAMBDA id :
        /\ HasCard(st, id)
        /\ \E w \in Range(trimmedKeys(tags)) : w \in Range(Field(st.cards[id], "tags", <<>>)))

\* getPracticeCardIdsForDeckByTags; wanted is mapped and filtered from
\* tags, the array at cell 2.
getPracticeCardIdsForDeckByTagsOnHeap(h, st, deckId, t, limit, tags, q, o) ==
    IF ~HasDeck(st, deckId) THEN NewObject(h, <<>>)
    ELSE IF limit <= 0 THEN NewObject(h, <<>>)
    ELSE IF trimmedKeys(tags) = <<>>
    THEN getPracticeCardIdsForDeckOnHeap(mappedAndFiltered(h, 2, <<>>),
                                         st, deckId, t, limit, q, o)
    ELSE practiceOnHeap(
             filter(mappedAndFiltered(h, 2, trimmedKeys(tags)), 1, taggedIds(st, deckId, tags)),
             st, deckId, t, limit, q, o)

\* applySm2(prev, result, now) with prev the record at cell 1.
applySm2OnHeap(h, result, t) == NewObject(h, applySm2(h.cells[1], result, t))

(***************************************************************************)
(* App.tsx: the state ReviewScreen.onSubmit hands to setState for the card *)
(* on screen, the answer having been graded as correct or not.             *)
(***************************************************************************)
StatsOf(st, id) ==
    IF id \in DOMAIN st.stats THEN st.stats[id] ELSE [reviews |-> 0, correct |-> 0]

\* onSubmit storing the recall state without the review counters.
submittedStateSrsOnly(st, id, correct, t) ==
    LET prev == IF id \in DOMAIN st.srs THEN st.srs[id] ELSE defaultSrs(id, t)
        next == applySm2(prev, [correct |-> correct], t)
    IN  [st EXCEPT
            !.srs = [x \in DOMAIN st.srs \cup {id} |-> IF x = id THEN next ELSE st.srs[x]]]

submittedState(st, id, correct, t) ==
    LET prev == IF id \in DOMAIN st.srs THEN st.srs[id] ELSE defaultSrs(id, t)
        next == applySm2(prev, [correct |-> correct], t)
        nextStats == [reviews |-> StatsOf(st, id).reviews + 1,
                      correct |-> StatsOf(st, id).correct + (IF correct THEN 1 ELSE 0)]
    IN  [st EXCEPT
            !.srs = [x \in DOMAIN st.srs \cup {id} |-> IF x = id THEN next ELSE st.srs[x]],
            !.stats = [x \in DOMAIN st.stats \cup {id} |->
                          IF x = id THEN nextStats ELSE st.stats[x]]]

(***************************************************************************)
(* App.tsx: ReviewScreen.  A session record ses holds the review screen of *)
(* App (deckId, queue, idx) and the component state of ReviewScreen        *)
(* (checked, skippedVerbGroupKeys).  An event handler runs on the latest   *)
(* render, and the renders and effects its updates cause are done when the *)
(* next event is handled.  idx counts from 0 as in the code.               *)
(***************************************************************************)
\* The limit startPractice and onStartVerbMix pass.
PracticeLimit == 20

\* null where an index is expected.
NoIdx == 0 - 1

currentCardId(ses) == ses.queue[ses.idx + 1]

verbGroupKeyForCardId(st, cid) ==
    IF ~HasCard(st, cid) THEN <<>>
    ELSE IF st.cards[cid].type # "verb" THEN <<>>
    ELSE LET c == st.cards[cid]
             bk == trim(Field(c, "verbBaseKanji", <<>>))
             ba == trim(Field(c, "verbBaseKana", <<>>))
             p == toLowerCase(trim(Field(c, "prompt", <<>>)))
         IN  IF bk # <<>> \/ ba # <<>> THEN bk \o <<"|", "|">> \o ba
             ELSE IF p # <<>> THEN <<"p", "r", "o", "m", "p", "t", "|", "|">> \o p
             ELSE <<"a", "n", "s", "w", "e", "r", "|", "|">> \o trim(Field(c, "answer", <<>>))

\* const verbGroupKey of the render: '' unless the deck is a conjugation
\* deck and the card on screen is a verb card.
verbGroupKey(st, ses) ==
    IF /\ isVerbConjugationDeck(st, ses.deckId)
       /\ HasCard(st, currentCardId(ses))
       /\ st.cards[currentCardId(ses)].type = "verb"
    THEN verbGroupKeyForCardId(st, currentCardId(ses))
    ELSE <<>>

isVerbGroupSkipped(st, ses) ==
    verbGroupKey(st, ses) # <<>> /\ verbGroupKey(st, ses) \in ses.skipped

\* The positions from startAt on that skipToNextUnskipped does not pass.
unskippedFrom(st, ses, startAt) ==
    {j \in startAt..(Len(ses.queue) - 1) :
        ~(/\ verbGroupKeyForCardId(st, ses.queue[j + 1]) # <<>>
          /\ verbGroupKeyForCardId(st, ses.queue[j + 1]) \in ses.skipped)}

skipToNextUnskipped(st, ses, startAt) ==
    IF unskippedFrom(st, ses, startAt) = {} THEN NoIdx
    ELSE SetMin(unskippedFrom(st, ses, startAt))

onExit(ses) == [ses EXCEPT !.screen = "home"]

\* setIdx(j) and the render that follows it: the effect on [cardId] clears
\* checked when the card on screen has changed.
setIdx(ses, j) ==
    [ses EXCEPT !.idx = j,
                !.checked = IF ses.queue[j + 1] = currentCardId(ses) THEN @ ELSE FALSE]

\* The effect on isVerbGroupSkipped, run after each render until the card
\* on screen is of no skipped group or the session is left.  A render
\* without a card record returns before the effect is declared.
RECURSIVE skipEffect(_, _)
skipEffect(st, ses) ==
    IF ses.screen = "review" /\ HasCard(st, currentCardId(ses)) /\ isVerbGroupSkipped(st, ses)
    THEN IF skipToNextUnskipped(st, ses, ses.idx + 1) = NoIdx THEN onExit(ses)
         ELSE skipEffect(st, setIdx(ses, skipToNextUnskipped(st, ses, ses.idx + 1)))
    ELSE ses

\* onSubmit without its first line.
onSubmitUnguarded(st, ses, correct, t) ==
    [state |-> submittedState(st, st.cards[currentCardId(ses)].id, correct, t),
     session |-> [ses EXCEPT !.checked = TRUE]]

\* The state and the session after onSubmit.
onSubmit(st, ses, correct, t) ==
    IF ses.checked THEN [state |-> st, session |-> ses]
    ELSE [state |-> submittedState(st, st.cards[currentCardId(ses)].id, correct, t),
          session |-> [ses EXCEPT !.checked = TRUE]]

\* onNext without its first line.
onNextUnanswered(st, ses) ==
    IF ses.idx + 1 >= Len(ses.queue) THEN onExit(ses)
    ELSE skipEffect(st, setIdx(ses, ses.idx + 1))

onNext(st, ses) ==
    IF ~ses.checked THEN ses
    ELSE IF ses.idx + 1 >= Len(ses.queue) THEN onExit(ses)
    ELSE skipEffect(st, setIdx(ses, ses.idx + 1))

\* The positions the loop of onSkipVerb stops at: after idx, of another
\* group, and of no group skipped before.
otherGroupFrom(st, ses, startAt) ==
    {j \in unskippedFrom(st, ses, startAt) :
        verbGroupKeyForCardId(st, ses.queue[j + 1]) # verbGroupKey(st, ses)}

\* The session with the group of the card on screen marked as skipped.
markSkipped(st, ses) == [ses EXCEPT !.skipped = @ \cup {verbGroupKey(st, ses)}]

onSkipVerb(st, ses) ==
    IF verbGroupKey(st, ses) = <<>> THEN ses
    ELSE IF otherGroupFrom(st, ses, ses.idx + 1) = {}
    THEN IF skipToNextUnskipped(st, ses, ses.idx + 1) = NoIdx THEN onExit(markSkipped(st, ses))
         ELSE skipEffect(st, setIdx(markSkipped(st, ses),
                                    skipToNextUnskipped(st, ses, ses.idx + 1)))
    ELSE skipEffect(st, setIdx(markSkipped(st, ses),
                               SetMin(otherGroupFrom(st, ses, ses.idx + 1))))

\* onKeyDown for the Enter key.
onKeyDown(st, ses, correct, t) ==
    IF ~ses.checked THEN onSubmit(st, ses, correct, t)
    ELSE [state |-> st, session |-> onNext(st, ses)]

(***************************************************************************)
(* The snapshots the queue functions are applied to.  One deck at a time   *)
(* carries study progress; every recall state in a snapshot is the result  *)
(* of applySm2 on a first review, as onSubmit (App.tsx) stores it with the *)
(* matching review counters.                                               *)
(***************************************************************************)
Reverse(s) == [i \in 1..Len(s) |-> s[Len(s) + 1 - i]]

SeedOrder ==
    [d \in DeckIds |->
        CASE d = VocabDeck -> <<"v2", "v1", "v3">>
          [] d = MixedDeck -> <<"s1", "v4">>
          [] OTHER -> <<"g2", "h1", "g4", "g1", "g3">>]

\* Orders of deck.cardIds: the conjugation deck also in reverse, and with
\* an entry z1 that has no card record (onImport stores decks unvalidated).
DeckOrders(d) ==
    IF d = ConjDeck
    THEN {SeedOrder[d], Reverse(SeedOrder[d]), Append(SeedOrder[d], "z1")}
    ELSE {SeedOrder[d]}

\* "new": never reviewed; "r0": answered correctly at time 0 (due after one
\* day); "w1": answered wrongly at one day (due at two days).
Profiles == {"new", "r0", "w1"}

\* "r2": answered correctly at time 0 and again at one day (two reviews,
\* due at seven days).
LongProfiles == Profiles \cup {"r2"}

\* h1 is offered by no queue of its deck, so it is never reviewed; the
\* cards of the mixed deck may have been reviewed twice.
ProfilesOf(id) ==
    IF id = "h1" THEN {"new"}
    ELSE IF id \in {"s1", "v4"} THEN LongProfiles
    ELSE Profiles

ProfileSrs(id, p) ==
    IF p = "r0" THEN applySm2(defaultSrs(id, 0), [correct |-> TRUE], 0)
    ELSE IF p = "r2"
    THEN applySm2(applySm2(defaultSrs(id, 0), [correct |-> TRUE], 0), [correct |-> TRUE], DayMs)
    ELSE applySm2(defaultSrs(id, DayMs), [correct |-> FALSE], DayMs)

ProfileStats(p) ==
    IF p = "r0" THEN [reviews |-> 1, correct |-> 1]
    ELSE IF p = "r2" THEN [reviews |-> 1 + 1, correct |-> 1 + 1]
    ELSE [reviews |-> 0 + 1, correct |-> 0]

AllOff == [categories |-> [cat \in VocabCategories |-> FALSE]]

NounOnly == [categories |-> [cat \in VocabCategories |-> cat = "noun"]]

\* state.vocabPracticeFilters: the mixed deck keeps a filter with every
\* category off, which applies to vocab-only decks alone.
FilterChoices(d) ==
    IF d = VocabDeck
    THEN {[x \in {MixedDeck} |-> AllOff],
          [x \in {MixedDeck, VocabDeck} |-> AllOff],
          [x \in {MixedDeck, VocabDeck} |-> IF x = VocabDeck THEN NounOnly ELSE AllOff]}
    ELSE {[x \in {MixedDeck} |-> AllOff]}

Assignments(d) ==
    {a \in [Range(SeedOrder[d]) -> LongProfiles] : \A id \in DOMAIN a : a[id] \in ProfilesOf(id)}

BuildState(d, order, assign, filters) ==
    LET reviewed == {id \in DOMAIN assign : assign[id] # "new"}
    IN  [decks |-> [x \in DeckIds |->
                       [id |-> x, name |-> DeckNames[x],
                        cardIds |-> IF x = d THEN order ELSE SeedOrder[x]]],
         cards |-> SeedCards,
         srs |-> [id \in reviewed |-> ProfileSrs(id, assign[id])],
         stats |-> [id \in reviewed |-> ProfileStats(assign[id])],
         vocabPracticeFilters |-> filters]

AppStates ==
    UNION {{BuildState(d, order, assign, filters) :
               order \in DeckOrders(d), assign \in Assignments(d), filters \in FilterChoices(d)}
           : d \in DeckIds}

SeedState ==
    BuildState(VocabDeck, SeedOrder[VocabDeck],
               [id \in Range(SeedOrder[VocabDeck]) |-> "new"],
               [x \in {MixedDeck} |-> AllOff])

\* limit arguments: below zero, zero, and up to MaxLimit.
Limits == (0 - 1)..MaxLimit

Blank == <<" ">>

\* tags arguments: a list with no usable tag, and a list of two tags of
\* which one is padded with a space.
TagLists == {<<Blank>>, <<<<" ">> \o TagFood, TagAnimal>>}

\* Base keys as verbBaseKey builds them: kanji, "||", kana.
TaberuKey == <<"%eat", "#be", "#ru", "|", "|", "#ta", "#be", "#ru">>

NomuKey == <<"|", "|", "#no", "#mu">>

\* The key of a verb that has no card in the deck.
IkuKey == <<"|", "|", "#i", "#ku">>

\* orderedBaseKeys arguments: two keys; a key listed twice around a blank
\* entry and a padded key; a key with no card; only a blank entry; the key
\* of the deck entry that has no card record.
BaseKeyLists ==
    {<<NomuKey, TaberuKey>>,
     <<TaberuKey, Blank, <<" ">> \o NomuKey, TaberuKey>>,
     <<IkuKey, NomuKey>>,
     <<Blank>>,
     <<Spelling["z1"], TaberuKey>>}

\* baseKeys arguments of the mixed queue.
MixedKeyLists == {<<IkuKey, NomuKey>>, <<Blank>>, <<Spelling["z1"], TaberuKey>>}

\* limit arguments of the mixed queues.
MixedLimits == {0, 2, MaxLimit}

\* Orders of the conjugation deck's cardIds for the verb modes: the seed
\* order, an order with an entry z1 that has no card record, and an order
\* holding the three cards of nomu.
VerbOrders ==
    {SeedOrder[ConjDeck],
     <<"g2", "z1", "h1", "g1", "g3">>,
     <<"g5", "g4", "h1", "g3", "g1">>}

VerbAssignments(order) ==
    [Range(order) \cap {"g1", "g2", "g3", "g4", "g5"} -> Profiles]

VerbStates ==
    UNION {{BuildState(ConjDeck, order, assign, [x \in {MixedDeck} |-> AllOff])
               : assign \in VerbAssignments(order)}
           : order \in VerbOrders}

\* Orders of the conjugation deck's cardIds for the base-key selectors: the
\* seed order; g6 before a conjugation card of the same verb; g6 as the
\* only card of its verb; g6 after the dictionary card of the same verb.
BaseOrders ==
    {SeedOrder[ConjDeck],
     <<"g6", "g4", "g1", "g2">>,
     <<"g1", "g6", "h1">>,
     <<"g3", "g6", "g1", "z1">>}

BaseStates ==
    UNION {{BuildState(ConjDeck, order, assign, [x \in {MixedDeck} |-> AllOff])
               : assign \in [Range(order) \cap {"g1", "g3", "g6"} -> {"new", "r0"}]}
           : order \in BaseOrders}

VerbClasses == {"ichidan", "godan"}

\* ending arguments: -ru, -mu, -mu padded, -ku (no such base), blank.
EndingArgs == {<<"#ru">>, <<"#mu">>, <<" ", "#mu">>, <<"#ku">>, Blank}

\* The states a study history starts from: no recall state and no review
\* counter is stored.
FreshStates ==
    {BuildState(ConjDeck, order, [id \in Range(SeedOrder[ConjDeck]) |-> "new"],
                [x \in {MixedDeck} |-> AllOff])
        : order \in {SeedOrder[ConjDeck], Append(SeedOrder[ConjDeck], "z1")}}

\* The cards a study history reviews: a card of a plain deck, a generated
\* card of the conjugation deck, and the card h1 added to it by hand (its
\* reviews are those of a backup loaded through onImport).
CycleCards == {"v4", "g1", "h1"}

\* The states a session history starts from: nothing reviewed; the
\* conjugation deck with two cards of taberu, one of nomu and the card added
\* by hand, or with an entry that has no card record.
SessionStates ==
    {BuildState(ConjDeck, order, [id \in Range(SeedOrder[ConjDeck]) |-> "new"],
                [x \in {MixedDeck} |-> AllOff])
        : order \in {<<"g2", "h1", "g1", "g3">>, <<"g1", "z1", "g4">>}}

\* The decks sessions are started on.
SessionDecks == {MixedDeck, ConjDeck}

NoEvent == [op |-> "none", idx |-> 0, checked |-> FALSE]

\* The home screen, before any session.  nowTick is the time state of App,
\* set when App is mounted (a session history is shorter than the minute
\* after which it is set again);
\* sessions, advances, answered and last record the history: the sessions
\* started, and for the latest session the Next and Skip actions that
\* advanced, the positions answered, and the last event handled.
NoSession ==
    [screen |-> "home", deckId |-> "gone", queue |-> <<>>, idx |-> 0, checked |-> FALSE,
     skipped |-> {}, nowTick |-> DayMs, sessions |-> 0, advances |-> 0, answered |-> {},
     last |-> NoEvent]

\* setScreen({ name: 'review', deckId, queue, idx: 0 }): ReviewScreen is
\* mounted, and its effects run.
startSession(st, ses, deckId, queue) ==
    skipEffect(st, [ses EXCEPT !.screen = "review", !.deckId = deckId, !.queue = queue,
                               !.idx = 0, !.checked = FALSE, !.skipped = {},
                               !.sessions = @ + 1, !.advances = 0, !.answered = {},
                               !.last = NoEvent])

\* What the store holds when the app starts: nothing, a value of another
\* version, a state with progress that migrateState changes, and one it
\* leaves as it is.
StoredAtStart ==
    {Undefined,
     [version |-> 2, progress |-> 10, migrated |-> TRUE],
     [version |-> 1, progress |-> 10, migrated |-> FALSE],
     [version |-> 1, progress |-> 10, migrated |-> TRUE]}

NoLoad == [phase |-> "get", read |-> "pending", writing |-> Undefined, value |-> Undefined]

\* The store and the app before loadState has run: stored is the value of
\* the store and writer the saveState call whose write it is (0 for none);
\* app is the state of App (Undefined for null); saves lists the saveState
\* calls in the order they were made.
IdbAtStart(stored) ==
    [stored |-> stored, atStart |-> stored, writer |-> 0, load |-> NoLoad, app |-> Undefined,
     saves |-> <<>>, reset |-> [phase |-> "idle", save |-> 0, value |-> Undefined]]

NoIdb == IdbAtStart(Undefined)

\* A saveState call that has called idbSet, which is opening the database.
SaveCalled(value) ==
    [value |-> value, phase |-> "opening", promise |-> "pending", logged |-> FALSE]

\* The snapshots the calls on the heap read: those with at most one
\* reviewed card.
HeapStates == {st \in AppStates \cup VerbStates : Cardinality(DOMAIN st.srs) <= 1}

\* The recall states applySm2 is called on.
HeapPrevStates == {defaultSrs("g1", 0), ProfileSrs("g1", "r0")}

NoCall ==
    [fn |-> "none", deckId |-> "gone", now |-> 0, limit |-> 0, tags |-> <<>>,
     keys |-> <<>>, result |-> <<>>]

(***************************************************************************)
(* The recall states a review sequence may start from: the default state   *)
(* and states installed by onImport (App.tsx), which stores the parsed     *)
(* JSON without validating it.                                             *)
(***************************************************************************)
EaseInputs == {120, MinEase, DefaultEase, MaxEase, 350}

PrevStates ==
    {defaultSrs("g1", 0)} \cup
    {[cardId |-> "g1", due |-> i * DayMs, intervalDays |-> i, easeFactor |-> e,
      repetitions |-> r, lapses |-> l, lastReviewed |-> 0] :
        i \in {0, 1, 6}, e \in EaseInputs, r \in 0..2, l \in 0..1}

NoSm2 == [fn |-> "none"]

(***************************************************************************)
(* Actions.                                                                *)
(***************************************************************************)
Idle == call.fn = "none"

\* The clock the caller reads moves on.
Tick ==
    /\ Idle
    /\ now < DayMs + MaxTicks * HalfDayMs
    /\ now' = now + HalfDayMs
    /\ UNCHANGED <<state, call, start, rec, sm2, session, idb, heap>>

CallGetDueCardIdsForDeck ==
    /\ Idle
    /\ \E deckId \in DeckArgs :
          \E result \in getDueCardIdsForDeck(state, deckId, now) :
             call' = [fn |-> "getDueCardIdsForDeck", deckId |-> deckId, now |-> now,
                      limit |-> 0, tags |-> <<>>, keys |-> <<>>, result |-> result]
    /\ UNCHANGED <<state, now, start, rec, sm2, session, idb, heap>>

CallGetPracticeCardIdsForDeck ==
    /\ Idle
    /\ \E deckId \in DeckArgs, limit \in Limits :
          \E result \in getPracticeCardIdsForDeck(state, deckId, now, limit) :
             call' = [fn |-> "getPracticeCardIdsForDeck", deckId |-> deckId, now |-> now,
                      limit |-> limit, tags |-> <<>>, keys |-> <<>>, result |-> result]
    /\ UNCHANGED <<state, now, start, rec, sm2, session, idb, heap>>

CallGetPracticeCardIdsForDeckByTags ==
    /\ Idle
    /\ \E deckId \in DeckArgs, limit \in Limits, tags \in TagLists :
          \E result \in getPracticeCardIdsForDeckByTags(state, deckId, now, limit, tags) :
             call' = [fn |-> "getPracticeCardIdsForDeckByTags", deckId |-> deckId,
                      now |-> now, limit |-> limit, tags |-> tags, keys |-> <<>>,
                      result |-> result]
    /\ UNCHANGED <<state, now, start, rec, sm2, session, idb, heap>>

CallGetVerbLadderQueueForReview ==
    /\ Idle
    /\ \E deckId \in DeckArgs :
          call' = [fn |-> "getVerbLadderQueueForReview", deckId |-> deckId, now |-> now,
                   limit |-> 0, tags |-> <<>>, keys |-> <<>>,
                   result |-> getVerbLadderQueueForReview(state, deckId, now)]
    /\ UNCHANGED <<state, now, start, rec, sm2, session, idb, heap>>

CallGetVerbLadderQueueForPractice ==
    /\ Idle
    /\ \E deckId \in DeckArgs, limit \in Limits :
          call' = [fn |-> "getVerbLadderQueueForPractice", deckId |-> deckId, now |-> now,
                   limit |-> limit, tags |-> <<>>, keys |-> <<>>,
                   result |-> getVerbLadderQueueForPractice(state, deckId, now, limit)]
    /\ UNCHANGED <<state, now, start, rec, sm2, session, idb, heap>>

CallGetVerbMixedQueueForPractice ==
    /\ Idle
    /\ \E deckId \in DeckArgs, limit \in MixedLimits :
          \E result \in getVerbMixedQueueForPractice(state, deckId, now, limit) :
             call' = [fn |-> "getVerbMixedQueueForPractice", deckId |-> deckId, now |-> now,
                      limit |-> limit, tags |-> <<>>, keys |-> <<>>, result |-> result]
    /\ UNCHANGED <<state, now, start, rec, sm2, session, idb, heap>>

CallGetVerbLadderQueueForBases ==
    /\ Idle
    /\ \E deckId \in DeckArgs, keys \in BaseKeyLists :
          call' = [fn |-> "getVerbLadderQueueForBases", deckId |-> deckId, now |-> now,
                   limit |-> 0, tags |-> <<>>, keys |-> keys,
                   result |-> getVerbLadderQueueForBases(state, deckId, keys)]
    /\ UNCHANGED <<state, now, start, rec, sm2, session, idb, heap>>

CallGetVerbMixedQueueForBases ==
    /\ Idle
    /\ \E deckId \in DeckArgs, keys \in MixedKeyLists, limit \in MixedLimits :
          \E result \in getVerbMixedQueueForBases(state, deckId, keys, limit) :
             call' = [fn |-> "getVerbMixedQueueForBases", deckId |-> deckId, now |-> now,
                      limit |-> limit, tags |-> <<>>, keys |-> keys, result |-> result]
    /\ UNCHANGED <<state, now, start, rec, sm2, session, idb, heap>>

CallGetVerbBaseKeysForVerbClass ==
    /\ Idle
    /\ \E deckId \in DeckArgs, cls \in VerbClasses :
          call' = [fn |-> "getVerbBaseKeysForVerbClass", deckId |-> deckId, now |-> now,
                   limit |-> 0, tags |-> <<>>, keys |-> <<>>, cls |-> cls,
                   result |-> getVerbBaseKeysForVerbClass(state, deckId, cls)]
    /\ UNCHANGED <<state, now, start, rec, sm2, session, idb, heap>>

CallGetVerbBaseKeysForVerbEnding ==
    /\ Idle
    /\ \E deckId \in DeckArgs, ending \in EndingArgs :
          call' = [fn |-> "getVerbBaseKeysForVerbEnding", deckId |-> deckId, now |-> now,
                   limit |-> 0, tags |-> <<>>, keys |-> <<>>, ending |-> ending,
                   result |-> getVerbBaseKeysForVerbEnding(state, deckId, ending)]
    /\ UNCHANGED <<state, now, start, rec, sm2, session, idb, heap>>

\* The caller passes one of the keys it was given to
\* getVerbLadderQueueForBases.
CallGetVerbLadderQueueForReturnedKey ==
    /\ call.fn \in {"getVerbBaseKeysForVerbClass", "getVerbBaseKeysForVerbEnding"}
    /\ \E k \in 1..Len(call.result) :
          call' = [fn |-> "getVerbLadderQueueForBases", deckId |-> call.deckId, now |-> now,
                   limit |-> 0, tags |-> <<>>, keys |-> <<call.result[k]>>,
                   keysFrom |-> call.fn,
                   result |-> getVerbLadderQueueForBases(state, call.deckId, <<call.result[k]>>)]
    /\ UNCHANGED <<state, now, start, rec, sm2, session, idb, heap>>

CallGetVerbLadderQueueForVerbClass ==
    /\ Idle
    /\ \E deckId \in DeckArgs, cls \in VerbClasses :
          call' = [fn |-> "getVerbLadderQueueForVerbClass", deckId |-> deckId, now |-> now,
                   limit |-> 0, tags |-> <<>>, keys |-> <<>>, cls |-> cls,
                   result |-> getVerbLadderQueueForVerbClass(state, deckId, cls)]
    /\ UNCHANGED <<state, now, start, rec, sm2, session, idb, heap>>

CallGetVerbLadderQueueForVerbEnding ==
    /\ Idle
    /\ \E deckId \in DeckArgs, ending \in EndingArgs :
          call' = [fn |-> "getVerbLadderQueueForVerbEnding", deckId |-> deckId, now |-> now,
                   limit |-> 0, tags |-> <<>>, keys |-> <<>>, ending |-> ending,
                   result |-> getVerbLadderQueueForVerbEnding(state, deckId, ending)]
    /\ UNCHANGED <<state, now, start, rec, sm2, session, idb, heap>>

\* The answers submitted so far for the cards of S.
RECURSIVE AnswersGiven(_, _)
AnswersGiven(st, S) ==
    IF S = {} THEN 0
    ELSE LET id == CHOOSE x \in S : TRUE
         IN  st.stats[id].reviews + AnswersGiven(st, S \ {id})

\* Time passes up to, or half a day around, the due time of a stored recall
\* state.
Wait ==
    /\ Idle
    /\ \E id \in DOMAIN state.srs, k \in {0 - 1, 0, 1} :
          /\ state.srs[id].due + k * HalfDayMs > now
          /\ state.srs[id].due + k * HalfDayMs <= MaxClockDays * DayMs
          /\ now' = state.srs[id].due + k * HalfDayMs
    /\ UNCHANGED <<state, call, start, rec, sm2, session, idb, heap>>

\* One answer is submitted for a card: the state onSubmit stores.
ReviewCard ==
    /\ Idle
    /\ AnswersGiven(state, DOMAIN state.stats) < MaxAnswers
    /\ \E id \in CycleCards, correct \in BOOLEAN :
          /\ state' = submittedState(state, id, correct, now)
          /\ sm2' = [fn |-> "applySm2", prev |-> SrsOf(state, id, now), correct |-> correct,
                     now |-> now,
                     ret |-> applySm2(SrsOf(state, id, now), [correct |-> correct], now)]
    /\ UNCHANGED <<now, call, start, rec, session, idb, heap>>

\* The caller is done with the list it was given.
Return ==
    /\ ~Idle
    /\ call' = NoCall
    /\ UNCHANGED <<state, now, start, rec, sm2, session, idb, heap>>

\* One review of the sequence: applySm2 on the current recall state.
Review ==
    \E correct \in BOOLEAN :
       /\ IF correct THEN rec.repetitions < MaxRepetitions ELSE rec.lapses < MaxLapses
       /\ Sm2IntervalDays(rec, QualityOf([correct |-> correct])) <= MaxIntervalDays
       /\ sm2' = [fn |-> "applySm2", prev |-> rec, correct |-> correct, now |-> now,
                  ret |-> applySm2(rec, [correct |-> correct], now)]
       /\ rec' = applySm2(rec, [correct |-> correct], now)
       /\ UNCHANGED <<state, now, call, start, session, idb, heap>>

(***************************************************************************)
(* Actions of a session history.                                           *)
(***************************************************************************)
AtHome == session.screen = "home"

\* ReviewScreen shows a card: the render got past "Missing card".
CardShown == session.screen = "review" /\ HasCard(state, currentCardId(session))

OnStartReview ==
    /\ AtHome
    /\ session.sessions < MaxSessions
    /\ \E deckId \in SessionDecks :
          \E queue \in getDueCardIdsForDeck(state, deckId, session.nowTick) :
             /\ queue # <<>>
             /\ session' = startSession(state, session, deckId, queue)
    /\ UNCHANGED <<state, now, call, start, rec, sm2, idb, heap>>

OnStartPractice ==
    /\ AtHome
    /\ session.sessions < MaxSessions
    /\ \E deckId \in SessionDecks :
          \E queue \in getPracticeCardIdsForDeck(state, deckId, now, PracticeLimit) :
             /\ queue # <<>>
             /\ session' = startSession(state, session, deckId, queue)
    /\ UNCHANGED <<state, now, call, start, rec, sm2, idb, heap>>

OnStartVerbMix ==
    /\ AtHome
    /\ session.sessions < MaxSessions
    /\ \E deckId \in SessionDecks :
          /\ isVerbConjugationDeck(state, deckId)
          /\ \E queue \in getVerbMixedQueueForPractice(state, deckId, now, PracticeLimit) :
                /\ queue # <<>>
                /\ session' = startSession(state, session, deckId, queue)
    /\ UNCHANGED <<state, now, call, start, rec, sm2, idb, heap>>

\* The event recorded in the history of the session.
Handled(op) == [op |-> op, idx |-> session.idx, checked |-> session.checked]

\* The history after an event that left the session ses.
Recorded(ses, op, answers, advances) ==
    [ses EXCEPT !.last = Handled(op),
                !.answered = IF answers THEN @ \cup {session.idx} ELSE @,
                !.advances = IF advances THEN @ + 1 ELSE @]

\* An answer may still be given within the bound of the history.
MayAnswer == session.checked \/ AnswersGiven(state, DOMAIN state.stats) < MaxAnswers

\* The Check button, or any other call of onSubmit.
OnSubmit ==
    /\ CardShown
    /\ MayAnswer
    /\ \E correct \in BOOLEAN :
          /\ state' = onSubmit(state, session, correct, now).state
          /\ session' = Recorded(onSubmit(state, session, correct, now).session,
                                 "submit", ~session.checked, FALSE)
    /\ UNCHANGED <<now, call, start, rec, sm2, idb, heap>>

\* The Next button, or any other call of onNext.
OnNext ==
    /\ CardShown
    /\ session' = Recorded(onNext(state, session), "next", FALSE, session.checked)
    /\ UNCHANGED <<state, now, call, start, rec, sm2, idb, heap>>

\* The Skip button, or any other call of onSkipVerb.
OnSkipVerb ==
    /\ CardShown
    /\ session' = Recorded(onSkipVerb(state, session), "skip", FALSE,
                           verbGroupKey(state, session) # <<>>)
    /\ UNCHANGED <<state, now, call, start, rec, sm2, idb, heap>>

\* The Enter key.
OnKeyDown ==
    /\ CardShown
    /\ MayAnswer
    /\ \E correct \in BOOLEAN :
          /\ state' = onKeyDown(state, session, correct, now).state
          /\ session' = Recorded(onKeyDown(state, session, correct, now).session,
                                 "enter", ~session.checked, session.checked)
    /\ UNCHANGED <<now, call, start, rec, sm2, idb, heap>>

\* The Exit button, or the Back button of "Missing card".
OnExit ==
    /\ session.screen = "review"
    /\ session' = [onExit(session) EXCEPT !.last = Handled("exit")]
    /\ UNCHANGED <<state, now, call, start, rec, sm2, idb, heap>>

(***************************************************************************)
(* Actions of the store.                                                   *)
(***************************************************************************)
\* The effect of App on [state]: saveState(state).
setState(db, value) == [db EXCEPT !.app = value, !.saves = Append(@, SaveCalled(value))]

\* idbGet of loadState ends.
LoadStateGet ==
    /\ idb.load.phase = "get"
    /\ \E outcome \in IdbOutcomes :
          idb' = [idb EXCEPT !.load = loadStateAfterGet(idb.stored, outcome)]
    /\ UNCHANGED <<state, now, call, start, rec, sm2, session, heap>>

\* idbSet of loadState ends.
LoadStateSet ==
    /\ idb.load.phase = "write"
    /\ \E outcome \in IdbOutcomes :
          idb' = [idb EXCEPT !.load = loadStateAfterSet(idb.load, outcome),
                             !.stored = IF outcome = "fulfilled" THEN idb.load.writing ELSE @]
    /\ UNCHANGED <<state, now, call, start, rec, sm2, session, heap>>

\* App: const st = await loadState(); setState(st).
AppLoaded ==
    /\ idb.load.phase = "resolved"
    /\ idb.app = Undefined
    /\ idb' = setState(idb, idb.load.value)
    /\ UNCHANGED <<state, now, call, start, rec, sm2, session, heap>>

\* A handler of the app stores a changed state.
ChangeState ==
    /\ idb.app # Undefined
    /\ Len(idb.saves) < MaxSaves
    /\ idb' = setState(idb, [idb.app EXCEPT !.progress = @ + 1])
    /\ UNCHANGED <<state, now, call, start, rec, sm2, session, heap>>

\* onReset: resetState() calls saveState(seed).
OnReset ==
    /\ idb.app # Undefined
    /\ idb.reset.phase = "idle"
    /\ Len(idb.saves) < MaxSaves
    /\ idb' = [idb EXCEPT !.saves = Append(@, SaveCalled(makeSeedState)),
                          !.reset = [phase |-> "saving", save |-> Len(idb.saves) + 1,
                                     value |-> Undefined]]
    /\ UNCHANGED <<state, now, call, start, rec, sm2, session, heap>>

\* onReset: const st = await resetState(); setState(st).
ResetStateSettled ==
    /\ idb.reset.phase = "saving"
    /\ idb.saves[idb.reset.save].promise # "pending"
    /\ idb' = IF resetState(idb.saves[idb.reset.save].promise).phase = "resolved"
              THEN [setState(idb, resetState(idb.saves[idb.reset.save].promise).value)
                       EXCEPT !.reset = [phase |-> "resolved", save |-> idb.reset.save,
                                         value |-> makeSeedState]]
              ELSE [idb EXCEPT !.reset = [phase |-> "rejected", save |-> idb.reset.save,
                                          value |-> Undefined]]
    /\ UNCHANGED <<state, now, call, start, rec, sm2, session, heap>>

\* Open requests and transactions end in any order.
IsFirstInAnyOrder(phase, i) == TRUE

\* No earlier saveState call is in the phase: open requests succeed, and
\* readwrite transactions on the store run, in the order they were made.
IsFirstIn(phase, i) == \A j \in 1..(i - 1) : idb.saves[j].phase # phase

\* openDb of a saveState call succeeds: idbSet puts the value in a
\* readwrite transaction.
OpenSucceeds ==
    /\ \E i \in 1..Len(idb.saves) :
          /\ idb.saves[i].phase = "opening"
          /\ IsFirstIn("opening", i)
          /\ idb' = [idb EXCEPT !.saves[i].phase = "writing"]
    /\ UNCHANGED <<state, now, call, start, rec, sm2, session, heap>>

\* openDb of a saveState call fails, is blocked or times out.
OpenFails ==
    /\ \E i \in 1..Len(idb.saves) :
          /\ idb.saves[i].phase = "opening"
          /\ idb' = [idb EXCEPT !.saves[i] =
                        [value |-> @.value, phase |-> "failed",
                         promise |-> saveState("rejected").promise,
                         logged |-> saveState("rejected").logged]]
    /\ UNCHANGED <<state, now, call, start, rec, sm2, session, heap>>

\* The transaction of a saveState call completes.
WriteCompletes ==
    /\ \E i \in 1..Len(idb.saves) :
          /\ idb.saves[i].phase = "writing"
          /\ IsFirstIn("writing", i)
          /\ idb' = [idb EXCEPT !.stored = idb.saves[i].value,
                                !.writer = i,
                                !.saves[i] =
                                    [value |-> @.value, phase |-> "done",
                                     promise |-> saveState("fulfilled").promise,
                                     logged |-> saveState("fulfilled").logged]]
    /\ UNCHANGED <<state, now, call, start, rec, sm2, session, heap>>

\* The transaction of a saveState call fails, is aborted or times out.
WriteFails ==
    /\ \E i \in 1..Len(idb.saves) :
          /\ idb.saves[i].phase = "writing"
          /\ idb' = [idb EXCEPT !.saves[i] =
                        [value |-> @.value, phase |-> "failed",
                         promise |-> saveState("rejected").promise,
                         logged |-> saveState("rejected").logged]]
    /\ UNCHANGED <<state, now, call, start, rec, sm2, session, heap>>

(***************************************************************************)
(* Calls on the heap.                                                      *)
(***************************************************************************)
HeapIdle == heap.fn = "none"

\* deck.cardIds as the call reaches it.
CardIdsOf(st, deckId) == IF HasDeck(st, deckId) THEN st.decks[deckId].cardIds ELSE <<>>

\* The pairs of a list q that getDueCardIdsForDeck returns and a value o of
\* othersShuffled for baseIds.
PracticeChoices(st, deckId, t, baseIds) ==
    IF ~HasDeck(st, deckId) \/ isVerbConjugationDeck(st, deckId) THEN {<<<<>>, <<>>>>}
    ELSE UNION {{<<q, o>> : o \in OthersShuffled(st, t,
                                     othersOf(baseIds, FilterSeq(q, Range(baseIds))))}
                : q \in getDueCardIdsForDeck(st, deckId, t)}

\* baseIds of getPracticeCardIdsForDeck.
BaseIdsOf(st, deckId) ==
    IF isVocabOnlyDeck(st, deckId)
    THEN getVocabPracticeFilteredIds(st, deckId, CardIdsOf(st, deckId))
    ELSE CardIdsOf(st, deckId)

RunGetDueCardIdsForDeck ==
    /\ HeapIdle
    /\ \E deckId \in DeckArgs :
          \E q \in getDueCardIdsForDeck(state, deckId, now) :
             heap' = getDueCardIdsForDeckOnHeap(
                         HeapAtCall("getDueCardIdsForDeck", <<CardIdsOf(state, deckId)>>),
                         state, deckId, now, q)
    /\ UNCHANGED <<state, now, call, start, rec, sm2, session, idb>>

RunGetPracticeCardIdsForDeck ==
    /\ HeapIdle
    /\ \E deckId \in DeckArgs, limit \in Limits :
          \E c \in PracticeChoices(state, deckId, now, BaseIdsOf(state, deckId)) :
             heap' = getPracticeCardIdsForDeckOnHeap(
                         HeapAtCall("getPracticeCardIdsForDeck", <<CardIdsOf(state, deckId)>>),
                         state, deckId, now, limit, c[1], c[2])
    /\ UNCHANGED <<state, now, call, start, rec, sm2, session, idb>>

RunGetPracticeCardIdsForDeckByTags ==
    /\ HeapIdle
    /\ \E deckId \in DeckArgs, limit \in Limits, tags \in TagLists :
          \E c \in PracticeChoices(state, deckId, now,
                                   IF trimmedKeys(tags) = <<>> \/ ~HasDeck(state, deckId)
                                   THEN BaseIdsOf(state, deckId)
                                   ELSE taggedIds(state, deckId, tags)) :
             heap' = getPracticeCardIdsForDeckByTagsOnHeap(
                         HeapAtCall("getPracticeCardIdsForDeckByTags",
                                    <<CardIdsOf(state, deckId), tags>>),
                         state, deckId, now, limit, tags, c[1], c[2])
    /\ UNCHANGED <<state, now, call, start, rec, sm2, session, idb>>

RunGetVerbLadderQueueForReview ==
    /\ HeapIdle
    /\ \E deckId \in DeckArgs :
          heap' = getVerbLadderQueueForReviewOnHeap(
                      HeapAtCall("getVerbLadderQueueForReview", <<CardIdsOf(state, deckId)>>),
                      state, deckId, now)
    /\ UNCHANGED <<state, now, call, start, rec, sm2, session, idb>>

RunGetVerbLadderQueueForPractice ==
    /\ HeapIdle
    /\ \E deckId \in DeckArgs, limit \in Limits :
          heap' = getVerbLadderQueueForPracticeOnHeap(
                      HeapAtCall("getVerbLadderQueueForPractice", <<CardIdsOf(state, deckId)>>),
                      state, deckId, now, limit)
    /\ UNCHANGED <<state, now, call, start, rec, sm2, session, idb>>

RunGetVerbLadderQueueForBases ==
    /\ HeapIdle
    /\ \E deckId \in DeckArgs, keys \in BaseKeyLists :
          heap' = getVerbLadderQueueForBasesOnHeap(
                      HeapAtCall("getVerbLadderQueueForBases",
                                 <<CardIdsOf(state, deckId), keys>>),
                      state, deckId, keys)
    /\ UNCHANGED <<state, now, call, start, rec, sm2, session, idb>>

RunGetVerbMixedQueueForPractice ==
    /\ HeapIdle
    /\ \E deckId \in DeckArgs, limit \in MixedLimits :
          \E mixed \in (IF HasDeck(state, deckId) THEN shuffled(ladderIds(state, deckId))
                        ELSE {<<>>}) :
             heap' = getVerbMixedQueueForPracticeOnHeap(
                         HeapAtCall("getVerbMixedQueueForPractice",
                                    <<CardIdsOf(state, deckId)>>),
                         state, deckId, limit, mixed)
    /\ UNCHANGED <<state, now, call, start, rec, sm2, session, idb>>

RunGetVerbMixedQueueForBases ==
    /\ HeapIdle
    /\ \E deckId \in DeckArgs, keys \in MixedKeyLists, limit \in MixedLimits :
          \E mixed \in (IF HasDeck(state, deckId)
                        THEN shuffled(idsOfBases(state, deckId, Range(trimmedKeys(keys))))
                        ELSE {<<>>}) :
             heap' = getVerbMixedQueueForBasesOnHeap(
                         HeapAtCall("getVerbMixedQueueForBases",
                                    <<CardIdsOf(state, deckId), keys>>),
                         state, deckId, keys, limit, mixed)
    /\ UNCHANGED <<state, now, call, start, rec, sm2, session, idb>>

RunApplySm2 ==
    /\ HeapIdle
    /\ \E correct \in BOOLEAN :
          heap' = applySm2OnHeap(HeapAtCall("applySm2", <<start>>),
                                 [correct |-> correct], now)
    /\ UNCHANGED <<state, now, call, start, rec, sm2, session, idb>>

\* The caller drops the result.
HeapReturn ==
    /\ ~HeapIdle
    /\ heap' = NoHeap
    /\ UNCHANGED <<state, now, call, start, rec, sm2, session, idb>>

(***************************************************************************)
(* Spec: the queue functions applied to the snapshots.                     *)
(***************************************************************************)
Init ==
    /\ state \in AppStates
    /\ now = DayMs
    /\ call = NoCall
    /\ start = defaultSrs("g1", 0)
    /\ rec = start
    /\ sm2 = NoSm2
    /\ session = NoSession
    /\ idb = NoIdb
    /\ heap = NoHeap

Next ==
    \/ Tick
    \/ CallGetDueCardIdsForDeck
    \/ CallGetPracticeCardIdsForDeck
    \/ CallGetPracticeCardIdsForDeckByTags
    \/ Return

Spec == Init /\ [][Next]_vars

(***************************************************************************)
(* SchedulerSpec: sequences of reviews of one card.                        *)
(***************************************************************************)
SchedulerInit ==
    /\ state = SeedState
    /\ now = DayMs
    /\ call = NoCall
    /\ start \in PrevStates
    /\ rec = start
    /\ sm2 = NoSm2
    /\ session = NoSession
    /\ idb = NoIdb
    /\ heap = NoHeap

SchedulerNext ==
    \/ Tick
    \/ Review

SchedulerSpec == SchedulerInit /\ [][SchedulerNext]_vars

(***************************************************************************)
(* VerbModesSpec: the verb queue functions applied to snapshots of the     *)
(* conjugation deck.                                                       *)
(***************************************************************************)
VerbModesInit ==
    /\ state \in VerbStates
    /\ now = DayMs
    /\ call = NoCall
    /\ start = defaultSrs("g1", 0)
    /\ rec = start
    /\ sm2 = NoSm2
    /\ session = NoSession
    /\ idb = NoIdb
    /\ heap = NoHeap

VerbModesNext ==
    \/ Tick
    \/ CallGetDueCardIdsForDeck
    \/ CallGetVerbLadderQueueForReview
    \/ CallGetVerbLadderQueueForPractice
    \/ CallGetVerbMixedQueueForPractice
    \/ CallGetVerbLadderQueueForBases
    \/ CallGetVerbMixedQueueForBases
    \/ Return

VerbModesSpec == VerbModesInit /\ [][VerbModesNext]_vars

(***************************************************************************)
(* VerbBasesSpec: the base-key selectors and the ladders of the keys they  *)
(* return, on snapshots of the conjugation deck.                           *)
(***************************************************************************)
VerbBasesInit ==
    /\ state \in BaseStates
    /\ now = DayMs
    /\ call = NoCall
    /\ start = defaultSrs("g1", 0)
    /\ rec = start
    /\ sm2 = NoSm2
    /\ session = NoSession
    /\ idb = NoIdb
    /\ heap = NoHeap

VerbBasesNext ==
    \/ Tick
    \/ CallGetVerbBaseKeysForVerbClass
    \/ CallGetVerbBaseKeysForVerbEnding
    \/ CallGetVerbLadderQueueForReturnedKey
    \/ CallGetVerbLadderQueueForVerbClass
    \/ CallGetVerbLadderQueueForVerbEnding
    \/ Return

VerbBasesSpec == VerbBasesInit /\ [][VerbBasesNext]_vars

(***************************************************************************)
(* DueCycleSpec: study histories.  Cards are reviewed from a state with    *)
(* no recall states, time passes, and the due list is read.                *)
(***************************************************************************)
DueCycleInit ==
    /\ state \in FreshStates
    /\ now = DayMs
    /\ call = NoCall
    /\ start = defaultSrs("g1", 0)
    /\ rec = start
    /\ sm2 = NoSm2
    /\ session = NoSession
    /\ idb = NoIdb
    /\ heap = NoHeap

DueCycleNext ==
    \/ Wait
    \/ ReviewCard
    \/ CallGetDueCardIdsForDeck
    \/ Return

DueCycleSpec == DueCycleInit /\ [][DueCycleNext]_vars

(***************************************************************************)
(* SessionSpec: review sessions started from a state with nothing          *)
(* reviewed, answered, advanced, skipped and left.                         *)
(***************************************************************************)
SessionInit ==
    /\ state \in SessionStates
    /\ now = DayMs
    /\ call = NoCall
    /\ start = defaultSrs("g1", 0)
    /\ rec = start
    /\ sm2 = NoSm2
    /\ session = NoSession
    /\ idb = NoIdb
    /\ heap = NoHeap

SessionNext ==
    \/ OnStartReview
    \/ OnStartPractice
    \/ OnStartVerbMix
    \/ OnSubmit
    \/ OnNext
    \/ OnSkipVerb
    \/ OnKeyDown
    \/ OnExit

SessionSpec == SessionInit /\ [][SessionNext]_vars

(***************************************************************************)
(* StorageSpec: the app starts on a store, loads, and saves its state      *)
(* after every change.                                                     *)
(***************************************************************************)
StorageInit ==
    /\ state = SeedState
    /\ now = DayMs
    /\ call = NoCall
    /\ start = defaultSrs("g1", 0)
    /\ rec = start
    /\ sm2 = NoSm2
    /\ session = NoSession
    /\ idb \in {IdbAtStart(stored) : stored \in StoredAtStart}
    /\ heap = NoHeap

StorageNext ==
    \/ LoadStateGet
    \/ LoadStateSet
    \/ AppLoaded
    \/ ChangeState
    \/ OnReset
    \/ ResetStateSettled
    \/ OpenSucceeds
    \/ OpenFails
    \/ WriteCompletes
    \/ WriteFails

StorageSpec == StorageInit /\ [][StorageNext]_vars

(***************************************************************************)
(* HeapSpec: the queue functions and applySm2 called on objects that have  *)
(* identity.                                                               *)
(***************************************************************************)
HeapInit ==
    /\ state \in HeapStates
    /\ now = DayMs
    /\ call = NoCall
    /\ start \in HeapPrevStates
    /\ rec = start
    /\ sm2 = NoSm2
    /\ session = NoSession
    /\ idb = NoIdb
    /\ heap = NoHeap

HeapNext ==
    \/ RunGetDueCardIdsForDeck
    \/ RunGetPracticeCardIdsForDeck
    \/ RunGetPracticeCardIdsForDeckByTags
    \/ RunGetVerbLadderQueueForReview
    \/ RunGetVerbLadderQueueForPractice
    \/ RunGetVerbLadderQueueForBases
    \/ RunGetVerbMixedQueueForPractice
    \/ RunGetVerbMixedQueueForBases
    \/ RunApplySm2
    \/ HeapReturn

HeapSpec == HeapInit /\ [][HeapNext]_vars

(***************************************************************************)
(* Properties of the scheduler, stated on the most recent applySm2 call    *)
(* (sm2.prev, sm2.correct, sm2.now, sm2.ret) of a review sequence that     *)
(* began in the recall state start.                                        *)
(***************************************************************************)
Sm2Called == sm2.fn = "applySm2"

EaseInRange(e) == MinEase <= e /\ e <= MaxEase

\* C2: for any prev and any now, applySm2 with correct = false returns
\* intervalDays = 1, repetitions = 0 and lapses = prev.lapses + 1, and leaves
\* easeFactor equal to prev.easeFactor.
C2_IncorrectResets ==
    (Sm2Called /\ ~sm2.correct) =>
        /\ sm2.ret.intervalDays = 1
        /\ sm2.ret.repetitions = 0
        /\ sm2.ret.lapses = sm2.prev.lapses + 1
        /\ sm2.ret.easeFactor = sm2.prev.easeFactor

\* An incorrect answer on a card with a streak, a long interval and an ease
\* factor below 1.3.
C2_Witness ==
    /\ Sm2Called /\ ~sm2.correct
    /\ sm2.prev.repetitions = 2 /\ sm2.prev.intervalDays = 6
    /\ sm2.prev.easeFactor < MinEase
    /\ sm2.ret.lapses = 2

\* C3: for any prev, applySm2 with correct = true returns repetitions =
\* prev.repetitions + 1 and intervalDays = 1 when the new repetitions is 1,
\* 6 when it is 2 and round(prev.intervalDays * prev.easeFactor) otherwise
\* (the integer n with n - 0.5 <= product < n + 0.5), with lapses unchanged;
\* from the default state two correct reviews give (1, 1) and then (6, 2).
C3_CorrectAdvances ==
    (Sm2Called /\ sm2.correct) =>
        /\ sm2.ret.repetitions = sm2.prev.repetitions + 1
        /\ sm2.ret.lapses = sm2.prev.lapses
        /\ sm2.ret.repetitions = 1 => sm2.ret.intervalDays = 1
        /\ sm2.ret.repetitions = 2 => sm2.ret.intervalDays = 6
        /\ sm2.ret.repetitions > 2 =>
              /\ 100 * sm2.ret.intervalDays - 50 <= sm2.prev.intervalDays * sm2.prev.easeFactor
              /\ sm2.prev.intervalDays * sm2.prev.easeFactor < 100 * sm2.ret.intervalDays + 50
        /\ (start = defaultSrs("g1", 0) /\ sm2.prev.lapses = 0 /\ sm2.prev.repetitions = 0) =>
              (sm2.ret.intervalDays = 1 /\ sm2.ret.repetitions = 1)
        /\ (start = defaultSrs("g1", 0) /\ sm2.prev.lapses = 0 /\ sm2.prev.repetitions = 1) =>
              (sm2.ret.intervalDays = 6 /\ sm2.ret.repetitions = 2)

\* The third correct review in a row from the default state: 6 * 2.5 = 15.
C3_Witness ==
    /\ Sm2Called /\ sm2.correct
    /\ start = defaultSrs("g1", 0)
    /\ sm2.prev.lapses = 0
    /\ sm2.ret.repetitions = 3
    /\ sm2.ret.intervalDays = 15

\* C4: for any prev, any answer and any now, the state returned by applySm2
\* has due = now + intervalDays * 86400000 with the new intervalDays,
\* lastReviewed = now, and prev's cardId.
C4_DueFromNewInterval ==
    Sm2Called =>
        /\ sm2.ret.due = sm2.now + sm2.ret.intervalDays * 86400000
        /\ sm2.ret.lastReviewed = sm2.now
        /\ sm2.ret.cardId = sm2.prev.cardId

\* A review after the clock has moved that changes the interval from 1 to 6.
C4_Witness ==
    /\ Sm2Called
    /\ sm2.now > DayMs
    /\ sm2.prev.intervalDays = 1 /\ sm2.ret.intervalDays = 6
    /\ sm2.ret.due = sm2.now + 6 * DayMs

\* C5, as claimed: for any prev and any sequence of applySm2 calls,
\* easeFactor lies within [1.3, 3.0] after every call.
C5_EaseAlwaysInRange == Sm2Called => EaseInRange(sm2.ret.easeFactor)

\* C5, amended: for any sequence of applySm2 calls that starts from a recall
\* state whose easeFactor lies within [1.3, 3.0], easeFactor lies within
\* [1.3, 3.0] after every call.
C5_EaseStaysInRange ==
    (Sm2Called /\ EaseInRange(start.easeFactor)) =>
        (EaseInRange(sm2.ret.easeFactor) /\ EaseInRange(rec.easeFactor))

\* A sequence from the lower end of the range with a lapse after a correct
\* answer.
C5_Witness ==
    /\ Sm2Called /\ ~sm2.correct
    /\ start.easeFactor = MinEase
    /\ sm2.prev.repetitions > start.repetitions
    /\ sm2.ret.easeFactor = MinEase

\* C6, as claimed: for any prev, applySm2 never returns an easeFactor lower
\* than prev.easeFactor, whether the answer is correct or not.
C6_EaseNeverLower == Sm2Called => sm2.ret.easeFactor >= sm2.prev.easeFactor

\* C6, amended: for any prev whose easeFactor is at most 3.0, applySm2 never
\* returns an easeFactor lower than prev.easeFactor, whether the answer is
\* correct or not.
C6_EaseNeverLowerBelowMax ==
    (Sm2Called /\ sm2.prev.easeFactor <= MaxEase) =>
        sm2.ret.easeFactor >= sm2.prev.easeFactor

\* A correct answer that raises an ease factor below 1.3 to 1.3.
C6_Witness ==
    /\ Sm2Called /\ sm2.correct
    /\ sm2.prev.easeFactor < MinEase
    /\ sm2.ret.easeFactor = MinEase

\* C7, as claimed: for any prev with easeFactor in [1.3, 3.0), applySm2 with
\* correct = true returns an easeFactor strictly greater than
\* prev.easeFactor.
C7_CorrectRaisesEase ==
    (Sm2Called /\ sm2.correct /\ MinEase <= sm2.prev.easeFactor
               /\ sm2.prev.easeFactor < MaxEase) =>
        sm2.ret.easeFactor > sm2.prev.easeFactor

\* C7, amended: the ease update formula evaluated at quality = 4 adds an
\* increment of exactly zero: for any prev with easeFactor in [1.3, 3.0],
\* applySm2 with correct = true returns an easeFactor equal to
\* prev.easeFactor.
C7_CorrectKeepsEase ==
    (Sm2Called /\ sm2.correct /\ EaseInRange(sm2.prev.easeFactor)) =>
        sm2.ret.easeFactor = sm2.prev.easeFactor

\* A correct answer on the default ease factor, which stays 2.5.
C7_Witness ==
    /\ Sm2Called /\ sm2.correct
    /\ sm2.prev.easeFactor = DefaultEase
    /\ sm2.ret.easeFactor = DefaultEase
    /\ sm2.ret.repetitions = 2

(***************************************************************************)
(* Properties of the queue functions, stated on the invocation the caller  *)
(* holds (call.fn, call.deckId, call.now, call.limit, call.tags,           *)
(* call.result) and the snapshot state it was made on.                     *)
(***************************************************************************)
CalledDeckIds ==
    IF HasDeck(state, call.deckId) THEN state.decks[call.deckId].cardIds ELSE <<>>

CalledOnConjugationDeck == isVerbConjugationDeck(state, call.deckId)

IsDueAtCall(id) == SrsOf(state, id, call.now).due <= call.now

\* The eligible ids of a getPracticeCardIdsForDeck call, in deck order.
PracticeEligible ==
    IF CalledOnConjugationDeck
    THEN SelectSeq(CalledDeckIds, LAMBDA id : PassesVerbGuard(state, id))
    ELSE IF isVocabOnlyDeck(state, call.deckId)
    THEN getVocabPracticeFilteredIds(state, call.deckId, CalledDeckIds)
    ELSE CalledDeckIds

WantedTags == {trim(call.tags[i]) : i \in 1..Len(call.tags)} \ {<<>>}

\* The eligible ids of a practice call through either entry point.
CallEligible ==
    IF call.fn = "getPracticeCardIdsForDeckByTags" /\ WantedTags # {}
    THEN SelectSeq(CalledDeckIds, LAMBDA id :
             /\ HasCard(state, id)
             /\ Range(Field(state.cards[id], "tags", <<>>)) \cap WantedTags # {})
    ELSE PracticeEligible

PracticeCalled ==
    call.fn \in {"getPracticeCardIdsForDeck", "getPracticeCardIdsForDeckByTags"}

ReturnsEveryEligible ==
    /\ Len(call.result) = Len(CallEligible)
    /\ Range(call.result) = Range(CallEligible)

\* C1, as claimed: for every deck, conjugation decks included, and every
\* now, getDueCardIdsForDeck returns no card whose due is greater than now,
\* and every card id of the deck whose due is <= now appears in the result
\* exactly once (a card with no stored recall state is due).
C1_DueSetExact ==
    call.fn = "getDueCardIdsForDeck" =>
        /\ \A i \in 1..Len(call.result) : IsDueAtCall(call.result[i])
        /\ \A id \in Range(CalledDeckIds) :
              IsDueAtCall(id) => Count(call.result, id) = 1

\* C1, amended: getDueCardIdsForDeck returns no card whose due is greater
\* than now; for a deck that is not a conjugation deck every card id of the
\* deck whose due is <= now appears exactly once; for a conjugation deck
\* every card id of the deck whose due is <= now and that passes the
\* generated-verb guard appears exactly once, and a card that fails the
\* guard does not appear.
C1_DueSetExactUpToGuard ==
    call.fn = "getDueCardIdsForDeck" =>
        /\ \A i \in 1..Len(call.result) : IsDueAtCall(call.result[i])
        /\ \A id \in Range(CalledDeckIds) :
              (IsDueAtCall(id) /\ (CalledOnConjugationDeck => PassesVerbGuard(state, id)))
                  => Count(call.result, id) = 1
        /\ CalledOnConjugationDeck =>
              \A id \in Range(call.result) : PassesVerbGuard(state, id)

\* The due list of the conjugation deck while the hand-added card h1 is due
\* and another card of the deck is not.
C1_Witness ==
    /\ call.fn = "getDueCardIdsForDeck"
    /\ call.deckId = ConjDeck
    /\ IsDueAtCall("h1") /\ "h1" \notin Range(call.result)
    /\ call.result # <<>>
    /\ \E id \in Range(CalledDeckIds) : ~IsDueAtCall(id)

C9_DueFirstThenPrefix ==
    (call.fn = "getPracticeCardIdsForDeck" /\ ~CalledOnConjugationDeck) =>
        /\ \A i, j \in 1..Len(call.result) :
              (i < j /\ IsDueAtCall(call.result[j])) => IsDueAtCall(call.result[i])
        /\ \E full \in getPracticeCardIdsForDeck(state, call.deckId, call.now, 0) :
              /\ Len(call.result) <= Len(full)
              /\ call.result = SubSeq(full, 1, Len(call.result))

\* A truncated queue that holds a due card followed by a card not due.
C9_Witness ==
    /\ call.fn = "getPracticeCardIdsForDeck"
    /\ call.deckId = VocabDeck
    /\ call.limit = 2 /\ Len(call.result) = 2
    /\ Len(PracticeEligible) = 3
    /\ IsDueAtCall(call.result[1]) /\ ~IsDueAtCall(call.result[2])

CalledCategories ==
    Field(state.vocabPracticeFilters[call.deckId], "categories",
          defaultVocabPracticeCategories)

CategoryEnabled(id) ==
    /\ HasCard(state, id)
    /\ CalledCategories[vocabCategoryForPos(Field(state.cards[id], "pos", <<>>))]

\* C11: for a vocab-only deck with a configured category filter and a
\* limit > 0, getPracticeCardIdsForDeck returns only cards whose category
\* (vocabCategoryForPos of their part of speech) is enabled in the filter,
\* and at most limit of them; a filter with no category enabled yields the
\* empty list, even when cards are due.
C11_OnlyEnabledCategories ==
    (/\ call.fn = "getPracticeCardIdsForDeck"
     /\ isVocabOnlyDeck(state, call.deckId)
     /\ call.deckId \in DOMAIN state.vocabPracticeFilters
     /\ call.limit > 0) =>
        /\ \A id \in Range(call.result) : CategoryEnabled(id)
        /\ Len(call.result) <= call.limit
        /\ (\A cat \in VocabCategories : ~CalledCategories[cat]) => call.result = <<>>

\* A call with limit 2 on the vocabulary deck, filtered to nouns, that
\* returns the one noun although the verb v2 and the adverb v3 are due.
C11_Witness ==
    /\ call.fn = "getPracticeCardIdsForDeck"
    /\ call.deckId = VocabDeck
    /\ isVocabOnlyDeck(state, call.deckId)
    /\ VocabDeck \in DOMAIN state.vocabPracticeFilters
    /\ CalledCategories["noun"] /\ ~CalledCategories["verb"]
    /\ call.limit = 2
    /\ IsDueAtCall("v2") /\ IsDueAtCall("v3")
    /\ call.result = <<"v1">>

TagsOfCard(id) ==
    IF HasCard(state, id) THEN Range(Field(state.cards[id], "tags", <<>>)) ELSE {}

\* C12, as claimed: for any deck, any limit and any supplied tag list,
\* every card returned by getPracticeCardIdsForDeckByTags has a tag set
\* that intersects the supplied list (its entries compared as the function
\* compares them, trimmed); a card with no tags is never returned.
C12_TagsAlwaysIntersect ==
    call.fn = "getPracticeCardIdsForDeckByTags" =>
        \A id \in Range(call.result) : TagsOfCard(id) \cap WantedTags # {}

\* C12, amended: when the supplied list has an entry that is not empty
\* after trimming, every returned card has a tag equal to a trimmed entry,
\* and no card without tags is returned; when it has none and limit > 0,
\* the result is a list getPracticeCardIdsForDeck returns for the same deck
\* and limit.
C12_TagsIntersectUnlessBlank ==
    call.fn = "getPracticeCardIdsForDeckByTags" =>
        /\ WantedTags # {} =>
              \A id \in Range(call.result) : TagsOfCard(id) \cap WantedTags # {}
        /\ (WantedTags = {} /\ call.limit > 0) =>
              call.result \in getPracticeCardIdsForDeck(state, call.deckId, call.now, call.limit)

\* A call with the tags " food" and "animal" on the vocabulary deck that
\* returns the two tagged cards and not v3, which has no tags.
C12_Witness ==
    /\ call.fn = "getPracticeCardIdsForDeckByTags"
    /\ call.deckId = VocabDeck
    /\ call.tags = <<<<" ">> \o TagFood, TagAnimal>>
    /\ TagsOfCard("v3") = {}
    /\ Range(call.result) = {"v1", "v2"}
    /\ Len(call.result) = 2

(***************************************************************************)
(* Properties of the verb modes.                                           *)
(***************************************************************************)
ReviewLadderCalled ==
    \/ call.fn = "getVerbLadderQueueForReview"
    \/ call.fn = "getDueCardIdsForDeck" /\ CalledOnConjugationDeck

PracticeLadderCalled == call.fn = "getVerbLadderQueueForPractice"

BaseOfResult(i) == verbBaseKey(state, call.result[i])

\* No card of another base stands strictly between two cards of one base.
LaddersContiguous ==
    \A i, k \in 1..Len(call.result) :
        (i < k /\ BaseOfResult(i) = BaseOfResult(k)) =>
            \A j \in i..k : BaseOfResult(j) = BaseOfResult(i)

\* C13: in the output of review ladder mode (getVerbLadderQueueForReview,
\* getDueCardIdsForDeck on a conjugation deck) and of practice ladder mode
\* (getVerbLadderQueueForPractice), for any two cards that share a base
\* key, no card with a different base key appears strictly between them.
C13_LadderContiguity ==
    (ReviewLadderCalled \/ PracticeLadderCalled) => LaddersContiguous

\* A review ladder of four cards of two verbs on a deck whose cardIds
\* alternate between the two verbs.
C13_Witness ==
    /\ ReviewLadderCalled
    /\ CalledDeckIds = <<"g2", "h1", "g4", "g1", "g3">>
    /\ Len(call.result) = 4
    /\ BaseOfResult(1) = BaseOfResult(2)
    /\ BaseOfResult(3) = BaseOfResult(4)
    /\ BaseOfResult(1) # BaseOfResult(3)

LadderModeCalled ==
    \/ ReviewLadderCalled
    \/ PracticeLadderCalled
    \/ call.fn = "getVerbLadderQueueForBases"

\* The card record of a returned id is one isGeneratedVerbCard accepts.
AcceptedCard(id) == HasCard(state, id) /\ isGeneratedVerbCard(state.cards[id])

\* The place in the rank table of the form tag isKnownVerbForm accepted.
RankOfAcceptedForm(id) ==
    (CHOOSE r \in 1..Len(KnownVerbForms) :
        KnownVerbForms[r] = toLowerCase(trim(state.cards[id].verbForm))) - 1

\* a stands before b in a ladder: by rank, then answer, then id.
InLadderOrder(a, b) ==
    \/ RankOfAcceptedForm(a) < RankOfAcceptedForm(b)
    \/ /\ RankOfAcceptedForm(a) = RankOfAcceptedForm(b)
       /\ \/ localeCompare(state.cards[a].answer, state.cards[b].answer) < 0
          \/ /\ localeCompare(state.cards[a].answer, state.cards[b].answer) = 0
             /\ localeCompare(Spelling[a], Spelling[b]) <= 0

\* C14: within any single ladder produced by any ladder mode, the cards
\* the eligibility guard accepts appear in the fixed form-rank order
\* dictionary(0) .. dont_want_past(11), regardless of the order of the
\* deck's card ids; cards of equal rank are ordered by answer and then id.
C14_FormRankOrder ==
    LadderModeCalled =>
        \A i, j \in 1..Len(call.result) :
            (/\ i < j
             /\ BaseOfResult(i) = BaseOfResult(j)
             /\ AcceptedCard(call.result[i])
             /\ AcceptedCard(call.result[j])) =>
                InLadderOrder(call.result[i], call.result[j])

\* The ladder of nomu with the te form g4 before g5, whose form tag
\* "polite_present " the guard accepted.
C14_Witness ==
    /\ call.fn = "getVerbLadderQueueForBases"
    /\ call.keys = <<IkuKey, NomuKey>>
    /\ AcceptedCard("g5")
    /\ call.result = <<"g3", "g4", "g5">>

DueOfResult(i) == SrsOf(state, call.result[i], call.now).due

\* The smallest due timestamp among the returned cards of the base of
\* call.result[i].
GroupMinDue(i) ==
    SetMin({DueOfResult(k) : k \in {k \in 1..Len(call.result) : BaseOfResult(k) = BaseOfResult(i)}})

\* A group with a smaller minimum due comes entirely before a group with a
\* larger one.
GroupsByMinDue ==
    \A i, j \in 1..Len(call.result) : GroupMinDue(i) < GroupMinDue(j) => i < j

\* C15, as claimed: review ladder mode returns exactly the due cards of the
\* conjugation deck (due-ness decided per card), grouped by base, a group
\* with a smaller minimum due entirely before a group with a larger one;
\* bases with no due card contribute nothing.
C15_ExactlyDueCards ==
    (ReviewLadderCalled /\ CalledOnConjugationDeck) =>
        /\ Range(call.result) \subseteq Range(CalledDeckIds)
        /\ \A id \in Range(CalledDeckIds) :
              Count(call.result, id) = IF IsDueAtCall(id) THEN 1 ELSE 0
        /\ LaddersContiguous
        /\ GroupsByMinDue

\* C15, amended: review ladder mode returns exactly the entries of the
\* conjugation deck that are due and pass the guard of its loop (the card
\* record is missing or is a generated verb card), each once, grouped by
\* base, a group with a smaller minimum due entirely before a group with a
\* larger one; a base none of whose cards is returned contributes nothing.
C15_ExactlyDueGuardedCards ==
    (ReviewLadderCalled /\ CalledOnConjugationDeck) =>
        /\ Range(call.result) \subseteq Range(CalledDeckIds)
        /\ \A id \in Range(CalledDeckIds) :
              Count(call.result, id) =
                  IF IsDueAtCall(id) /\ PassesVerbGuard(state, id) THEN 1 ELSE 0
        /\ LaddersContiguous
        /\ GroupsByMinDue

\* A review ladder of two groups with different minimum dues, while a
\* generated card of the deck is not due and the hand-added h1 is due.
C15_Witness ==
    /\ ReviewLadderCalled
    /\ CalledOnConjugationDeck
    /\ Len(call.result) >= 3
    /\ GroupMinDue(1) < GroupMinDue(Len(call.result))
    /\ \E id \in Range(CalledDeckIds) : PassesVerbGuard(state, id) /\ ~IsDueAtCall(id)
    /\ IsDueAtCall("h1") /\ "h1" \in Range(CalledDeckIds)

\* The returned cards of the base of call.result[i].
LadderOfResult(i) ==
    SelectSeq(call.result, LAMBDA id : verbBaseKey(state, id) = BaseOfResult(i))

LadderReviews(i) ==
    SumSeq([k \in 1..Len(LadderOfResult(i)) |-> ReviewsOf(state, LadderOfResult(i)[k])])

\* The average review count of the ladder of i is lower than, or equal to,
\* that of the ladder of j.
AvgReviewsLower(i, j) ==
    LadderReviews(i) * Len(LadderOfResult(j)) < LadderReviews(j) * Len(LadderOfResult(i))

AvgReviewsEqual(i, j) ==
    LadderReviews(i) * Len(LadderOfResult(j)) = LadderReviews(j) * Len(LadderOfResult(i))

GuardedDeckIds == {id \in Range(CalledDeckIds) : PassesVerbGuard(state, id)}

\* C16: in practice ladder mode, of any two ladders in the output the one
\* with the lower average review count comes first, and with equal
\* averages the one with the smaller minimum due comes first; whether a
\* card is due plays no role in which cards are eligible (the guard alone
\* decides, and a limit that fits them all returns them all).
C16_LeastPractisedFirst ==
    PracticeLadderCalled =>
        /\ \A i, j \in 1..Len(call.result) :
              /\ AvgReviewsLower(i, j) => i < j
              /\ (AvgReviewsEqual(i, j) /\ GroupMinDue(i) < GroupMinDue(j)) => i < j
        /\ Range(call.result) \subseteq GuardedDeckIds
        /\ (call.limit > 0 /\ call.limit >= Cardinality(GuardedDeckIds)) =>
              Range(call.result) = GuardedDeckIds

\* A practice queue that starts with the three cards of nomu (two reviews
\* in all) and ends with the one card of taberu (one review), with a card
\* that is not due among them.
C16_Witness ==
    /\ PracticeLadderCalled
    /\ Len(call.result) = 4
    /\ Len(LadderOfResult(1)) = 3
    /\ LadderReviews(1) = 2
    /\ LadderReviews(4) = 1
    /\ BaseOfResult(1) # BaseOfResult(4)
    /\ \E i \in 1..4 : ~IsDueAtCall(call.result[i])

\* The groups of the called deck in the order practice ladder mode sorts
\* them.
CalledPracticeGroups ==
    IF HasDeck(state, call.deckId)
    THEN sortByAvgReviews(practiceGroups(state,
             GroupByBase(state, ladderIds(state, call.deckId)), call.now))
    ELSE <<>>

\* The first m groups, concatenated.
FirstLadders(groups, m) == flatMapIds(SubSeq(groups, 1, m))

\* The output is the first m ladders, m being the first count at which the
\* groups end or the next ladder would exceed limit.
IsGreedyPrefix(groups, m) ==
    /\ call.result = FirstLadders(groups, m)
    /\ \/ m = Len(groups)
       \/ Len(FirstLadders(groups, m)) + Len(groups[m + 1].ids) > call.limit
    /\ \A n \in 1..(m - 1) :
          Len(FirstLadders(groups, n)) + Len(groups[n + 1].ids) <= call.limit

\* C17: in practice ladder mode with limit > 0 a ladder is never split (of
\* every base either all eligible cards are in the output or none); the
\* selected ladders are a prefix of the group order, appended until the
\* next would exceed limit; and the output is longer than limit only when
\* it is exactly the first ladder.
C17_WholeLaddersUpToLimit ==
    (PracticeLadderCalled /\ call.limit > 0) =>
        /\ \A a, b \in GuardedDeckIds :
              (verbBaseKey(state, a) = verbBaseKey(state, b) /\ a \in Range(call.result))
                  => b \in Range(call.result)
        /\ IF CalledPracticeGroups = <<>> THEN call.result = <<>>
           ELSE \E m \in 1..Len(CalledPracticeGroups) : IsGreedyPrefix(CalledPracticeGroups, m)
        /\ Len(call.result) > call.limit => call.result = CalledPracticeGroups[1].ids

\* A practice queue of one card for limit 2 on a deck of three ladders,
\* the second of which has two cards.
C17_Witness ==
    /\ PracticeLadderCalled
    /\ call.limit = 2
    /\ Len(CalledPracticeGroups) = 3
    /\ Len(CalledPracticeGroups[2].ids) = 2
    /\ Len(call.result) = 1

ListedKeys == {trim(call.keys[i]) : i \in 1..Len(call.keys)} \ {<<>>}

\* The first position at which a base key is listed.
FirstListed(base) == SetMin({i \in 1..Len(call.keys) : trim(call.keys[i]) = base})

\* The ladders come in the order of the key list, none of an unlisted
\* base, and every eligible card of a listed base is returned once.
LaddersInKeyOrder ==
    /\ \A i \in 1..Len(call.result) : BaseOfResult(i) \in ListedKeys
    /\ \A i, j \in 1..Len(call.result) :
          (i < j /\ BaseOfResult(i) # BaseOfResult(j)) =>
              FirstListed(BaseOfResult(i)) < FirstListed(BaseOfResult(j))
    /\ \A id \in GuardedDeckIds :
          Count(call.result, id) = IF verbBaseKey(state, id) \in ListedKeys THEN 1 ELSE 0

\* C19: getVerbLadderQueueForBases returns the ladders of the listed bases
\* in the order of the caller's key list (a key listed twice counts at its
\* first position), each ladder in form-rank order; listed keys with no
\* card in the deck are skipped, and no card of an unlisted base is
\* returned.
C19_LaddersOfListedBases ==
    call.fn = "getVerbLadderQueueForBases" =>
        /\ LaddersInKeyOrder
        /\ \A i, j \in 1..Len(call.result) :
              (/\ i < j
               /\ BaseOfResult(i) = BaseOfResult(j)
               /\ AcceptedCard(call.result[i])
               /\ AcceptedCard(call.result[j])) =>
                  InLadderOrder(call.result[i], call.result[j])

\* The queue for the keys taberu, blank, " nomu", taberu on the deck that
\* holds g5: the card of taberu first, then the ladder of nomu with the te
\* form before the polite form.
C19_Witness ==
    /\ call.fn = "getVerbLadderQueueForBases"
    /\ call.keys = <<TaberuKey, Blank, <<" ">> \o NomuKey, TaberuKey>>
    /\ LaddersInKeyOrder
    /\ call.result = <<"g1", "g3", "g4", "g5">>

\* The ordering of C19 without its form-rank clause, which does hold.
C19_KeyOrderAlone ==
    call.fn = "getVerbLadderQueueForBases" => LaddersInKeyOrder

VerbModeCalled ==
    \/ LadderModeCalled
    \/ call.fn \in {"getVerbMixedQueueForPractice", "getVerbMixedQueueForBases"}

\* C20: every card id returned by the review, practice, mixed and
\* explicit-bases verb modes refers to a generated verb card (type verb,
\* a verbBaseKana ending in a verb-ending kana, a known verbForm, and a
\* part of speech with the word verb or a prompt starting with "to "); a
\* deck entry failing this guard, an id with no card record included, is
\* not in the output.
C20_OnlyGeneratedVerbCards ==
    VerbModeCalled => \A id \in Range(call.result) : AcceptedCard(id)

\* A mixed queue that holds z1, an entry of the deck with no card record.
C20_Witness ==
    /\ call.fn = "getVerbMixedQueueForPractice"
    /\ "z1" \in Range(CalledDeckIds)
    /\ ~HasCard(state, "z1")
    /\ "z1" \in Range(call.result)

\* The verb modes return no card whose record exists and fails the guard.
C20_NoRejectedRecord ==
    VerbModeCalled =>
        \A id \in Range(call.result) : HasCard(state, id) => AcceptedCard(id)

(***************************************************************************)
(* The remainder of the practice queue.                                    *)
(***************************************************************************)
\* C24: in the practice queue of a deck that is not a conjugation deck,
\* among the eligible cards that are not due a card with a smaller reviews
\* count precedes a card with a larger one (no stats record counts as 0);
\* only the order of cards with equal counts is left to the shuffle.
C24_LeastReviewedFirst ==
    (PracticeCalled /\ HasDeck(state, call.deckId) /\ ~CalledOnConjugationDeck) =>
        \A i, j \in 1..Len(call.result) :
            (/\ ~IsDueAtCall(call.result[i])
             /\ ~IsDueAtCall(call.result[j])
             /\ ReviewsOf(state, call.result[i]) < ReviewsOf(state, call.result[j])) => i < j

\* The queue of the mixed deck with v4 (one review, not due) before s1 (two
\* reviews, not due), against the order of the deck's cardIds.
C24_Witness ==
    /\ call.fn = "getPracticeCardIdsForDeck"
    /\ call.deckId = MixedDeck
    /\ CalledDeckIds = <<"s1", "v4">>
    /\ ReviewsOf(state, "v4") = 1 /\ ReviewsOf(state, "s1") = 2
    /\ ~IsDueAtCall("v4") /\ ~IsDueAtCall("s1")
    /\ call.result = <<"v4", "s1">>

(***************************************************************************)
(* Properties of the base-key selectors (VerbBasesSpec).                   *)
(***************************************************************************)
KeyLadderCalled == call.fn = "getVerbLadderQueueForBases" /\ "keysFrom" \in DOMAIN call

\* The deck entries whose entry in getVerbDictionaryBases carries the key.
CardsOfKey(key) ==
    {id \in Range(CalledDeckIds) :
        isDictionaryBaseCard(state, id) /\ verbBaseEntry(state, id).baseKey = key}

\* The dictionary-form card a key was derived from: the first such entry.
DerivedFrom(key) ==
    LET ids == CalledDeckIds
    IN  ids[SetMin({i \in 1..Len(ids) : ids[i] \in CardsOfKey(key)})]

SelectedKeys(cls) == Range(getVerbBaseKeysForVerbClass(state, call.deckId, cls))

\* The ichidan and the godan keys are disjoint and together are the keys of
\* the dictionary-form bases of the deck.
C30_ClassesPartitionBases ==
    call.fn \in {"getVerbBaseKeysForVerbClass", "getVerbLadderQueueForVerbClass"} =>
        /\ SelectedKeys("ichidan") \cap SelectedKeys("godan") = {}
        /\ SelectedKeys("ichidan") \cup SelectedKeys("godan") =
               Range(baseKeysOf(getVerbDictionaryBases(state, call.deckId)))

\* C30: for every key returned by getVerbBaseKeysForVerbClass or
\* getVerbBaseKeysForVerbEnding, getVerbLadderQueueForBases called with that
\* key returns a non-empty ladder that contains the dictionary-form card
\* the key was derived from; the ichidan and the godan key sets are
\* disjoint and together cover every dictionary-form base of the deck.
C30_KeysSelectTheirLadders ==
    /\ KeyLadderCalled =>
          /\ call.result # <<>>
          /\ DerivedFrom(call.keys[1]) \in Range(call.result)
    /\ C30_ClassesPartitionBases

\* The key of nomu was derived from g6, and its ladder is g4 alone.
C30_Witness ==
    /\ KeyLadderCalled
    /\ call.keysFrom = "getVerbBaseKeysForVerbClass"
    /\ CalledDeckIds = <<"g6", "g4", "g1", "g2">>
    /\ call.keys = <<NomuKey>>
    /\ DerivedFrom(NomuKey) = "g6"
    /\ call.result = <<"g4">>

\* The key of nomu was derived from g6, the only card of its verb, and no
\* card is returned for it.
C30_EmptyLadder ==
    /\ KeyLadderCalled
    /\ CalledDeckIds = <<"g1", "g6", "h1">>
    /\ call.keys = <<NomuKey>>
    /\ call.result = <<>>

\* The key part of C30 for the keys derived from a card whose verbBaseKana
\* has no whitespace inside.
C30_PlainKanaKeysSelectTheirLadders ==
    (/\ KeyLadderCalled
     /\ LET kana == Field(state.cards[DerivedFrom(call.keys[1])], "verbBaseKana", <<>>)
        IN  normalizeVerbBaseKana(kana) = trim(kana)) =>
        /\ call.result # <<>>
        /\ DerivedFrom(call.keys[1]) \in Range(call.result)

(***************************************************************************)
(* Properties of study histories (DueCycleSpec).                           *)
(***************************************************************************)
DueListCalled == call.fn = "getDueCardIdsForDeck" /\ HasDeck(state, call.deckId)

\* The cards of the called deck that have been reviewed.
ReviewedDeckIds == Range(CalledDeckIds) \cap DOMAIN state.srs

EveryReviewSchedulesAhead ==
    sm2.fn = "applySm2" => sm2.ret.intervalDays >= 1 /\ sm2.ret.due > sm2.now

\* C26 as stated: every review at time now yields intervalDays >= 1 and
\* due > now; a reviewed card is absent from getDueCardIdsForDeck while now
\* is before its due time, and is returned at every time from its due time
\* on until its next review.
C26_ReviewedCardComesBack ==
    /\ EveryReviewSchedulesAhead
    /\ DueListCalled =>
          \A id \in ReviewedDeckIds :
             IF call.now < state.srs[id].due
             THEN id \notin Range(call.result)
             ELSE id \in Range(call.result)

\* C26, amended: every review at time now yields intervalDays >= 1 and
\* due > now; a reviewed card is absent from getDueCardIdsForDeck while now
\* is before its due time; from its due time on until its next review it is
\* returned if its deck is not a conjugation deck or if it passes the
\* generated-verb guard, and a card of a conjugation deck that fails the
\* guard is never returned.
C26_ReviewedGuardedCardComesBack ==
    /\ EveryReviewSchedulesAhead
    /\ DueListCalled =>
          \A id \in ReviewedDeckIds :
             IF call.now < state.srs[id].due
             THEN id \notin Range(call.result)
             ELSE IF CalledOnConjugationDeck /\ ~PassesVerbGuard(state, id)
             THEN id \notin Range(call.result)
             ELSE id \in Range(call.result)

\* g1 was answered wrongly and then correctly, and the due list of its deck
\* is read at its due time: g1 is back in it.
C26_Witness ==
    /\ DueListCalled
    /\ call.deckId = ConjDeck
    /\ "g1" \in ReviewedDeckIds
    /\ state.stats["g1"].reviews = 2
    /\ state.srs["g1"].lapses = 1
    /\ call.now = state.srs["g1"].due
    /\ "g1" \in Range(call.result)

(***************************************************************************)
(* Properties of review sessions (SessionSpec).                            *)
(***************************************************************************)
\* The step handles a submit action: the Check button or the Enter key.
SubmitHandled ==
    /\ session.screen = "review"
    /\ session' # session
    /\ session'.last.op \in {"submit", "enter"}

\* The card on screen before the step.
ShownCard == state.cards[currentCardId(session)].id

GroupKeyAt(i) == verbGroupKey(state, [session EXCEPT !.idx = i])

\* The last event was a Next or a Skip that had to advance.
AdvanceHandled ==
    \/ session.last.op \in {"next", "enter"} /\ session.last.checked
    \/ session.last.op = "skip" /\ GroupKeyAt(session.last.idx) # <<>>

\* C25: a review session is a strictly forward walk over its queue that
\* ends: Next does nothing until the card on screen has been answered; every
\* Next or Skip action either moves idx to a larger index below queue.length
\* or leaves the session, so the session is left after at most queue.length
\* such actions; and no card of a skipped verb group is on screen for
\* answering afterwards.
C25_ForwardWalkThatEnds ==
    /\ (session.last.op = "next" /\ ~session.last.checked) =>
          (session.screen = "review" /\ session.idx = session.last.idx)
    /\ AdvanceHandled =>
          \/ session.screen = "home"
          \/ session.idx > session.last.idx /\ session.idx < Len(session.queue)
    /\ session.screen = "review" =>
          session.idx < Len(session.queue) /\ session.advances <= session.idx
    /\ session.advances <= Len(session.queue)
    /\ session.screen = "review" => GroupKeyAt(session.idx) \notin session.skipped
    /\ \A i \in session.answered : i <= session.idx

\* A session of two cards was walked to its end by two Next actions.
C25_Witness ==
    /\ session.screen = "home"
    /\ session.last.op = "next" /\ session.last.checked
    /\ Len(session.queue) = 2
    /\ session.advances = Len(session.queue)
    /\ session.answered = {0, 1}

\* A verb was skipped while a later card of its group was in the queue, and
\* the card of another verb is on screen.
C25_SkipWitness ==
    /\ session.screen = "review"
    /\ session.last.op = "skip"
    /\ session.skipped # {}
    /\ \E j \in (session.idx + 1)..(Len(session.queue) - 1) :
          verbGroupKeyForCardId(state, session.queue[j + 1]) \in session.skipped

\* C27: after any sequence of submitted answers that starts from a state
\* with no recall states and no stats, every card has
\* stats.correct <= stats.reviews and srs.lapses = stats.reviews -
\* stats.correct, and a recall state is stored for a card exactly when its
\* stats.reviews is at least 1.
C27_StatsMatchRecallStates ==
    \A id \in CardIds \cup {"z1"} :
        /\ id \in DOMAIN state.srs <=> ReviewsOf(state, id) >= 1
        /\ id \in DOMAIN state.stats => state.stats[id].correct <= state.stats[id].reviews
        /\ id \in DOMAIN state.srs =>
              state.srs[id].lapses = state.stats[id].reviews - state.stats[id].correct

\* A card was answered wrongly in one session and correctly in the next.
C27_Witness ==
    /\ session.sessions = 2
    /\ \E id \in DOMAIN state.srs :
          /\ state.stats[id].reviews = 2
          /\ state.stats[id].correct = 1
          /\ state.srs[id].lapses = 1
          /\ state.srs[id].repetitions = 1


(***************************************************************************)
(* Properties of the store, stated on the states of StorageSpec.           *)
(***************************************************************************)
Settled(i) == idb.saves[i].promise # "pending"

SavesDone == {i \in 1..Len(idb.saves) : idb.saves[i].phase = "done"}

LatestOf(S) == CHOOSE i \in S : \A j \in S : j <= i

\* C23: the storage operations never fail towards the caller.  No
\* saveState call rejects, and one whose open or write failed or timed out
\* has logged and resolved; loadState does not reject, and it resolves
\* with a seed state when the read failed or found no valid state;
\* resetState does not reject, and it resolves with a seed state.
C23_StorageNeverFailsTowardsCaller ==
    /\ \A i \in 1..Len(idb.saves) :
          /\ idb.saves[i].promise # "rejected"
          /\ idb.saves[i].phase \in {"done", "failed"} => idb.saves[i].promise = "resolved"
          /\ idb.saves[i].phase = "failed" => idb.saves[i].logged
    /\ idb.load.phase # "rejected"
    /\ idb.load.phase = "resolved" /\ idb.load.read \in {"failed", "invalid"}
          => idb.load.value = makeSeedState
    /\ idb.reset.phase # "rejected"
    /\ idb.reset.phase = "resolved" => idb.reset.value = makeSeedState

\* The read of loadState failed, and resetState has resolved although the
\* write of its saveState call failed.
C23_Witness ==
    /\ idb.load.phase = "resolved"
    /\ idb.load.read = "failed"
    /\ idb.reset.phase = "resolved"
    /\ idb.saves[idb.reset.save].phase = "failed"

\* loadState has resolved after its own write of the seed state failed.
C23_SeedWriteFailedWitness ==
    /\ idb.load.phase = "resolved"
    /\ idb.load.read = "invalid"
    /\ idb.stored = idb.atStart
    /\ idb.load.value = makeSeedState

\* C29: a failed read of a stored state never destroys it.  When the read
\* of loadState failed on a store that held a valid state, the store does
\* not hold the seed state after start-up, whose only save is the first
\* saveState call, made when App sets the loaded state.
C29_FailedReadKeepsStoredState ==
    (/\ idb.load.read = "failed"
     /\ idb.atStart.version = 1
     /\ idb.writer <= 1)
        => idb.stored # makeSeedState

\* The read failed on a store that held a state with progress, and App has
\* set the state that loadState resolved with.
C29_Witness ==
    /\ idb.load.read = "failed"
    /\ idb.atStart.version = 1
    /\ idb.atStart.progress > 0
    /\ idb.app # Undefined
    /\ Len(idb.saves) = 1
    /\ Settled(1)

C28_OverlapWitness ==
    /\ Len(idb.saves) >= 2
    /\ idb.saves[1].phase = "writing"
    /\ idb.saves[2].phase = "writing"


(***************************************************************************)
(* Properties of the calls on the heap, stated on the states of HeapSpec.  *)
(***************************************************************************)
HeapCalled == heap.fn # "none"

\* C21: no queue or scheduler operation mutates its inputs.  After a call
\* every object the arguments reach (deck.cardIds, the array argument,
\* prev) has the value it had at the call, the state passed in is the
\* state the caller holds, and the list or record returned is an object
\* made by the call, none of the argument's.
C21_InputsUnchangedResultNew ==
    HeapCalled =>
        /\ SubSeq(heap.cells, 1, heap.inputs) = heap.before
        /\ heap.ret > heap.inputs
        /\ heap.fn = "applySm2" => heap.cells[1] = start
        /\ heap.fn # "applySm2" => heap.cells[1] \in {<<>>} \cup
                                       {state.decks[d].cardIds : d \in DOMAIN state.decks}

\* getPracticeCardIdsForDeck has returned the ids of a deck in another
\* order than deck.cardIds, after sorting and shuffling arrays in place.
C21_Witness ==
    /\ heap.fn = "getPracticeCardIdsForDeck"
    /\ Len(heap.cells[heap.ret]) > 1
    /\ Range(heap.cells[heap.ret]) = Range(heap.cells[1])
    /\ heap.cells[heap.ret] # heap.cells[1]
    /\ \E r \in (heap.inputs + 1)..Len(heap.cells) :
          heap.cells[r] = heap.cells[1] /\ r # heap.ret

\* applySm2 has returned a record that differs from prev.
C21_Sm2Witness ==
    /\ heap.fn = "applySm2"
    /\ heap.cells[heap.ret] # heap.cells[1]

====
